---- MODULE Spec2Model ----
(***************************************************************************)
(* Model of the offline-QR link dashboard.                                 *)
(*                                                                         *)
(*   - the bulk create-link endpoint and its bounded-concurrency runner    *)
(*     createWithConcurrency (api/create-link/bulk/route.ts), with the     *)
(*     createLinkRecord call of lib/linkService.ts that every task runs;   *)
(*   - the client report polling loop handleLoadLinkReport (app/page.tsx). *)
(*                                                                         *)
(* JavaScript is single-threaded and cooperative: an action of the model   *)
(* is one synchronous run between two suspension points (await).           *)
(***************************************************************************)
EXTENDS Integers, Sequences, FiniteSets, TLC

\* ------------------------------------------------------------------ bounds
MaxTasks == 3          \* longest task list explored
MaxLimit == 3          \* largest concurrency limit explored
MaxRows == 2           \* most rows of the links table beside clear-links
MaxTicks == 1          \* most clock advances beside the report route
MaxRequests == 2       \* most requests the report route receives
MaxBodyRows == 2       \* most rows of a bulk create-link body
MaxCreates == 2        \* most calls that create one link
MaxRecords == 3        \* most records of a marts sheet
MaxRetries == 2        \* largest retries option of withRetry

\* ------------------------------------------------------- program constants
BulkConcurrency == 4   \* the limit the bulk endpoint passes
MaxBatch == 120        \* largest batch the bulk endpoint accepts
MaxAttempts == 20      \* attempt budget of the report polling loop
MaxPollNew == 2        \* polls of a job the report route has just started
MaxPollResume == 1     \* polls of a job the request resumes
SuccessTtl == 900      \* cache TTL of a SUCCESS report, seconds
PendingTtl == 20       \* cache TTL of a PENDING report, seconds
FailTtl == 120         \* cache TTL of any other report, seconds
MaxCreativeLen == 40   \* longest normalized creative name
SupabaseRetries == 2   \* retries of runSupabaseWithRetry
SheetsBaseDelayMs == 600   \* baseDelayMs the sheet loader passes

Min(a, b) == IF a < b THEN a ELSE b
Max(a, b) == IF a > b THEN a ELSE b

VARIABLES
  \* ---- bulk create-link endpoint / createWithConcurrency
  caller,        \* "POST": the bulk endpoint; "direct": a direct call of the runner
  tasks,         \* the (deduplicated) task list handed to the runner
  concurrency,   \* the concurrency argument
  phase,         \* "request" | "running" | "returned" | "responded"
  cursor,        \* the shared cursor (0-based, as in the source)
  workers,       \* the logical workers spawned so far (Array.from callback runs)
  invoked,       \* task indexes passed to worker(), in call order
  thrown,        \* task indexes whose createLinkRecord call threw
  created,       \* accumulator of created rows
  errors,        \* accumulator of error rows
  links,         \* rows of the links table inserted by this batch
  response,      \* the HTTP response of the endpoint, NoResponse before
  \* ---- report polling loop
  pollPc,        \* "idle" | "fetch" | "wait" | "done"
  link,          \* the link whose report is loaded
  attempt,       \* loop counter
  taskId,        \* continuation token kept between attempts
  requests,      \* requests issued so far (their query parameters)
  responses,     \* responses received so far
  waits,         \* number of fixed delays started
  isReportLoading,
  reportTargetShortUrl,
  selectedLinkReport,
  errorMessage,
  \* ---- access gate: middleware and /api/access
  gateEnv,       \* process.env.ACCESS_GATE_CODE
  jar,           \* the browser's value of the cookie qmk_gate_access
  entered,       \* a POST /api/access carried the configured code
  gateReq,       \* the last request of the browser
  gateRes,       \* the answer to it
  \* ---- POST /api/admin/clear-links
  adminKeyEnv,   \* process.env.ADMIN_CLEAR_KEY
  clearPc,       \* "idle" | "count" | "delete" | "done"
  clearKey,      \* body.key of the request
  clearOps,      \* database calls issued by the handler, in order
  countBefore,   \* the count the first query returned
  removed,       \* rows the delete removed
  linkTable,     \* ids of the rows of the links table
  clearRes,      \* the answer of the handler
  \* ---- GET /api/link-report
  repEnv,        \* Airbridge environment: app name set, number of tokens
  repReq,        \* query parameters of the request being served
  rep,           \* the handler's position and local variables
  repCalls,      \* Airbridge report calls the handler has issued
  repRes,        \* the answer of the handler
  cache,         \* table link_report_cache, by short_url
  now,           \* the clock, in seconds
  ticks,         \* number of clock advances so far
  served,        \* number of requests received so far
  \* ---- bulk create-link endpoint: task list of the request
  body,          \* body of the request
  rawTasks,      \* tasks, as parsed from the body
  dedupedTasks,  \* dedupedTasks
  parsePc,       \* "request" | "parsed" | "deduped"
  \* ---- one link: createLinkRecord and POST /api/create-link
  createEnv,     \* hasAirbridgeEnv, Supabase client present
  createReq,     \* the call being served
  createPc,      \* idle, airbridge, insert, done
  airbridgeResult,\* airbridgeResult.shortUrl
  creations,     \* calls of createAirbridgeLink, in order
  inserts,       \* inserts into links issued
  linkRows,      \* rows of the links table
  createRes,     \* how the last call ended
  createCount,   \* calls so far
  \* ---- POST /api/marts/sync
  records,       \* what loadMartsFromGoogleSheets gives
  syncEnv,       \* Google keys set, Supabase client present
  syncPc,        \* idle, load, call, sleep, done
  dedupedByMartIdRecords,   \* result of dedupeByMartId
  dropped,       \* records dedupeByMartId overwrote
  uniqueBatchRecords,       \* records of of ensureUniqueCodesInBatch
  existingRows,  \* rows select(mart_id, code) returned
  normalizedWithDb,         \* result of ensureCodesNotCollidingWithDb
  actionName,    \* the database action runSupabaseWithRetry runs
  syncAttempt,   \* attempt of runSupabaseWithRetry
  lastResult,    \* lastResult of runSupabaseWithRetry
  firstUpsert,   \* what the first upsert returned
  dbCalls,       \* calls of fn per database action
  accepted,      \* records the marts table accepted
  syncRes,       \* status and summary.upserted
  \* ---- withRetry inside loadMartsFromGoogleSheets
  retryOptions,  \* options of withRetry
  loadRead,      \* the read the loader is at, 0 before the first
  retryPc,       \* idle, call, sleep, returned, thrown
  retryAttempt,  \* attempt of withRetry
  fnCalls,       \* calls of fn per read
  rejections,    \* calls of fn that rejected, per read
  delays,        \* delays withRetry waited per read
  lastError,     \* lastError of withRetry
  loadRes        \* the error the loader threw

runnerVars == <<caller, tasks, concurrency, phase, cursor, workers, invoked,
                thrown, created, errors, links, response>>
pollVars == <<pollPc, link, attempt, taskId, requests, responses, waits,
              isReportLoading, reportTargetShortUrl, selectedLinkReport,
              errorMessage>>
gateVars == <<gateEnv, jar, entered, gateReq, gateRes>>
clearVars == <<adminKeyEnv, clearPc, clearKey, clearOps, countBefore, removed,
               linkTable, clearRes>>
reportVars ==
  <<repEnv, repReq, rep, repCalls, repRes, cache, now, ticks, served>>
dedupeVars == <<body, rawTasks, dedupedTasks, parsePc>>
createVars ==
  <<createEnv, createReq, createPc, airbridgeResult, creations, inserts,
    linkRows, createRes, createCount>>
syncVars ==
  <<records, syncEnv, syncPc, dedupedByMartIdRecords, dropped,
    uniqueBatchRecords, existingRows, normalizedWithDb, actionName,
    syncAttempt, lastResult, firstUpsert, dbCalls, accepted, syncRes>>
retryVars ==
  <<retryOptions, loadRead, retryPc, retryAttempt, fnCalls, rejections,
    delays, lastError, loadRes>>
vars == <<runnerVars, pollVars, gateVars, clearVars, reportVars,
         dedupeVars, createVars, syncVars, retryVars>>

\* What an action of one component leaves alone.
besideRunner ==
  <<pollVars, gateVars, clearVars, reportVars, dedupeVars, createVars,
    syncVars, retryVars>>
besidePoll ==
  <<runnerVars, gateVars, clearVars, reportVars, dedupeVars, createVars,
    syncVars, retryVars>>
besideGate ==
  <<runnerVars, pollVars, clearVars, reportVars, dedupeVars, createVars,
    syncVars, retryVars>>
besideClear ==
  <<runnerVars, pollVars, gateVars, reportVars, dedupeVars, createVars,
    syncVars, retryVars>>
besideReport ==
  <<runnerVars, pollVars, gateVars, clearVars, dedupeVars, createVars,
    syncVars, retryVars>>
besideDedupe ==
  <<runnerVars, pollVars, gateVars, clearVars, reportVars, createVars,
    syncVars, retryVars>>
besideCreate ==
  <<runnerVars, pollVars, gateVars, clearVars, reportVars, dedupeVars,
    syncVars, retryVars>>
besideSync ==
  <<runnerVars, pollVars, gateVars, clearVars, reportVars, dedupeVars,
    createVars, retryVars>>
besideRetry ==
  <<runnerVars, pollVars, gateVars, clearVars, reportVars, dedupeVars,
    createVars, syncVars>>

Null == "null"
NoResponse == [status |-> 0]

\* ======================================================================
\* Bulk create-link: tasks, runner, worker closure
\* ======================================================================

\* The k-th task (1-based) of a batch: distinct (martCode, adCreative) pairs.
Task(k) == [martCode |-> (k + 1) \div 2, adCreative |-> k % 2]

TaskList(n) == [k \in 1..n |-> Task(k)]

\* Math.max(1, Math.min(concurrency, tasks.length)): the length of the pool.
PoolSizeIgnoreLimit(c, n) == Max(1, n)
PoolSizeNoFloor(c, n) == Min(c, n)
PoolSizeNoMin(c, n) == Max(1, c)
PoolSize(c, n) == Max(1, Min(c, n))

\* while (cursor < tasks.length)
LoopContinuesOffByOne(c, n) == c < n - 1
LoopContinues(c, n) == c < n

\* cursor += 1
NextCursorSkip(c) == c + 2
NextCursorStale(c) == c
NextCursor(c) == c + 1

\* await Promise.all(workers): every logical worker has finished.
AnyWorkerDone(ws) == \E i \in 1..Len(ws) : ws[i].pc = "done"
AllWorkersDone(ws) == \A i \in 1..Len(ws) : ws[i].pc = "done"

\* The kinds of failure a createLinkRecord call can end with.
LinkServiceErrors == {"VALIDATION", "AIRBRIDGE", "DB"}
OtherErrors == {"Error", "nonError"}

\* message of the error row the catch block builds
ErrorMessage(kind) ==
  IF kind \in LinkServiceErrors THEN kind
  ELSE IF kind = "Error" THEN "Error" ELSE "unknown error"

ErrorRow(task, kind) ==
  [mart_code |-> task.martCode, ad_creative |-> task.adCreative,
   message |-> ErrorMessage(kind)]

\* The catch block of the worker closure: one push per caught error.
PushErrorNoReturn(errs, task, kind) ==
  IF kind \in LinkServiceErrors
    THEN Append(Append(errs, ErrorRow(task, kind)), ErrorRow(task, kind))
    ELSE Append(errs, ErrorRow(task, kind))
PushErrorSwallow(errs, task, kind) ==
  IF kind \in LinkServiceErrors
    THEN Append(errs, ErrorRow(task, kind))
    ELSE errs
PushError(errs, task, kind) ==
  IF kind \in LinkServiceErrors
    THEN Append(errs, ErrorRow(task, kind))
    ELSE Append(errs, ErrorRow(task, kind))

\* The row createLinkRecord inserts and returns for a task.
LinkRow(task) == [mart_code |-> task.martCode, ad_creative |-> task.adCreative]

\* The whole pool has been built: the synchronous Array.from has finished.
Spawned == Len(workers) >= PoolSize(concurrency, Len(tasks))

\* A worker invocation that has started and not yet settled.
InFlightPcs == {"airbridge", "insert", "threw"}
InFlight == {i \in 1..Len(workers) : workers[i].pc \in InFlightPcs}

\* One pass of the logical worker's loop, up to its await: either claim the
\* task under the cursor and call worker(current), whose createLinkRecord
\* validates synchronously, or leave the loop.
LoopStep(valid) ==
  IF LoopContinues(cursor, Len(tasks))
    THEN [w |-> [pc |-> IF valid THEN "airbridge" ELSE "threw",
                 idx |-> cursor,
                 err |-> IF valid THEN "none" ELSE "VALIDATION"],
          cursor |-> NextCursor(cursor),
          invoked |-> Append(invoked, cursor),
          thrown |-> IF valid THEN thrown ELSE thrown \cup {cursor}]
    ELSE [w |-> [pc |-> "done", idx |-> -1, err |-> "none"],
          cursor |-> cursor,
          invoked |-> invoked,
          thrown |-> thrown]

BatchRejectedEmptyOnly(n) == n = 0
\* dedupedTasks.length === 0, dedupedTasks.length > 120
BatchRejected(n) == n = 0 \/ n > MaxBatch

\* The batches explored: up to MaxTasks tasks, and for the endpoint one
\* task more than it accepts.
RunnerInit ==
  /\ caller \in {"POST", "direct"}
  /\ tasks \in {TaskList(n) : n \in (0..MaxTasks) \cup {MaxBatch + 1}}
  /\ Len(tasks) > MaxTasks => caller = "POST"
  /\ concurrency \in (-1..MaxLimit) \cup {BulkConcurrency}
  /\ caller = "POST" => concurrency = BulkConcurrency
  /\ phase = "request"
  /\ cursor = 0
  /\ workers = << >>
  /\ invoked = << >>
  /\ thrown = {}
  /\ created = << >>
  /\ errors = << >>
  /\ links = {}
  /\ response = NoResponse

\* POST: an empty or oversized batch is answered 400 before anything runs.
PostReject ==
  /\ phase = "request"
  /\ caller = "POST"
  /\ BatchRejected(Len(tasks))
  /\ phase' = "responded"
  /\ response' = [status |-> 400]
  /\ UNCHANGED <<caller, tasks, concurrency, cursor, workers, invoked, thrown,
                 created, errors, links>>
  /\ UNCHANGED besideRunner

\* createWithConcurrency is entered: cursor = 0, the pool is about to be built.
Start ==
  /\ phase = "request"
  /\ caller = "POST" => ~BatchRejected(Len(tasks))
  /\ phase' = "running"
  /\ cursor' = 0
  /\ UNCHANGED <<caller, tasks, concurrency, workers, invoked, thrown,
                 created, errors, links, response>>
  /\ UNCHANGED besideRunner

\* Array.from runs the async callback for the next pool slot; the callback
\* runs synchronously up to its first await.
Spawn ==
  /\ phase = "running"
  /\ ~Spawned
  /\ \E valid \in BOOLEAN :
       LET s == LoopStep(valid) IN
         /\ workers' = Append(workers, s.w)
         /\ cursor' = s.cursor
         /\ invoked' = s.invoked
         /\ thrown' = s.thrown
  /\ UNCHANGED <<caller, tasks, concurrency, phase, created, errors, links,
                 response>>
  /\ UNCHANGED besideRunner

\* createAirbridgeLink settles for worker i's task.  On success
\* createLinkRecord goes on to issue the insert; on failure it rejects, the
\* worker closure catches the error, pushes the error row and returns.
AirbridgeSettle(i) ==
  /\ phase = "running" /\ Spawned
  /\ i \in 1..Len(workers)
  /\ workers[i].pc = "airbridge"
  /\ \E r \in {"ok", "AIRBRIDGE", "Error", "nonError"} :
       IF r = "ok"
         THEN /\ workers' = [workers EXCEPT ![i].pc = "insert"]
              /\ UNCHANGED <<thrown, errors>>
         ELSE /\ workers' = [workers EXCEPT ![i].pc = "resume"]
              /\ thrown' = thrown \cup {workers[i].idx}
              /\ errors' = PushError(errors, tasks[workers[i].idx + 1], r)
  /\ UNCHANGED <<caller, tasks, concurrency, phase, cursor, invoked, created,
                 links, response>>
  /\ UNCHANGED besideRunner

\* The insert into links settles for worker i's task.  On success
\* createLinkRecord returns the row and the closure pushes it to created; on
\* failure the closure catches the error and pushes the error row.
InsertSettle(i) ==
  /\ phase = "running" /\ Spawned
  /\ i \in 1..Len(workers)
  /\ workers[i].pc = "insert"
  /\ workers' = [workers EXCEPT ![i].pc = "resume"]
  /\ \E r \in {"ok", "DB", "Error"} :
       IF r = "ok"
         THEN /\ links' = links \cup {LinkRow(tasks[workers[i].idx + 1])}
              /\ created' = Append(created, LinkRow(tasks[workers[i].idx + 1]))
              /\ UNCHANGED <<thrown, errors>>
         ELSE /\ thrown' = thrown \cup {workers[i].idx}
              /\ errors' = PushError(errors, tasks[workers[i].idx + 1], r)
              /\ UNCHANGED <<links, created>>
  /\ UNCHANGED <<caller, tasks, concurrency, phase, cursor, invoked, response>>
  /\ UNCHANGED besideRunner

\* createLinkRecord rejected at its validation: the worker closure resumes in
\* its catch block, pushes the error row and returns normally.
Catch(i) ==
  /\ phase = "running" /\ Spawned
  /\ i \in 1..Len(workers)
  /\ workers[i].pc = "threw"
  /\ errors' = PushError(errors, tasks[workers[i].idx + 1], workers[i].err)
  /\ workers' = [workers EXCEPT ![i].pc = "resume"]
  /\ UNCHANGED <<caller, tasks, concurrency, phase, cursor, invoked, thrown,
                 created, links, response>>
  /\ UNCHANGED besideRunner

\* The logical worker resumes after await worker(current) and runs its loop
\* up to the next await.
Resume(i) ==
  /\ phase = "running" /\ Spawned
  /\ i \in 1..Len(workers)
  /\ workers[i].pc = "resume"
  /\ \E valid \in BOOLEAN :
       LET s == LoopStep(valid) IN
         /\ workers' = [workers EXCEPT ![i] = s.w]
         /\ cursor' = s.cursor
         /\ invoked' = s.invoked
         /\ thrown' = s.thrown
  /\ UNCHANGED <<caller, tasks, concurrency, phase, created, errors, links,
                 response>>
  /\ UNCHANGED besideRunner

\* await Promise.all(workers) resumes: createWithConcurrency resolves.
Return ==
  /\ phase = "running" /\ Spawned
  /\ AllWorkersDone(workers)
  /\ phase' = "returned"
  /\ UNCHANGED <<caller, tasks, concurrency, cursor, workers, invoked, thrown,
                 created, errors, links, response>>
  /\ UNCHANGED besideRunner

\* created.length === 0 answers 500, anything else 200.
BulkStatusFailOnAnyError(cr, er) == IF Len(er) > 0 THEN 500 ELSE 200
BulkStatus(cr, er) == IF Len(cr) = 0 THEN 500 ELSE 200

\* POST builds the summary and answers.
Respond ==
  /\ phase = "returned"
  /\ caller = "POST"
  /\ phase' = "responded"
  /\ LET summary == [requested |-> Len(tasks), created |-> Len(created),
                     failed |-> Len(errors)]
     IN response' =
          IF BulkStatus(created, errors) = 500
            THEN [status |-> 500, success |-> FALSE, summary |-> summary,
                  errors |-> errors]
            ELSE [status |-> 200, success |-> (Len(errors) = 0),
                  summary |-> summary, data |-> created, errors |-> errors]
  /\ UNCHANGED <<caller, tasks, concurrency, cursor, workers, invoked, thrown,
                 created, errors, links>>
  /\ UNCHANGED besideRunner

WorkerIds == 1..(Max(MaxTasks, Max(MaxLimit, BulkConcurrency)) + 1)

RunnerNext ==
  \/ PostReject
  \/ Start
  \/ Spawn
  \/ \E i \in WorkerIds : AirbridgeSettle(i)
  \/ \E i \in WorkerIds : InsertSettle(i)
  \/ \E i \in WorkerIds : Catch(i)
  \/ \E i \in WorkerIds : Resume(i)
  \/ Return
  \/ Respond

\* The runner before any bulk request: the state the polling loop runs beside.
RunnerIdle ==
  /\ caller = "POST"
  /\ tasks = << >>
  /\ concurrency = BulkConcurrency
  /\ phase = "request"
  /\ cursor = 0
  /\ workers = << >>
  /\ invoked = << >>
  /\ thrown = {}
  /\ created = << >>
  /\ errors = << >>
  /\ links = {}
  /\ response = NoResponse

\* ======================================================================
\* Client report polling loop: handleLoadLinkReport
\* ======================================================================

NoReport == [report_status |-> "none", task_id |-> Null]
OldReport == [report_status |-> "SUCCESS", task_id |-> "t0"]

ReportStatuses == {"PENDING", "SUCCESS", "FAILED"}
TaskIdValues == {Null, "", "t1"}

\* What one GET /api/link-report can answer: the HTTP status class and the
\* JSON payload {success, data: {report_status, task_id}}.
PollResponses ==
  [ok : BOOLEAN, success : BOOLEAN, hasData : {TRUE},
     data : [report_status : ReportStatuses, task_id : TaskIdValues]]
  \cup [ok : BOOLEAN, success : BOOLEAN, hasData : {FALSE}, data : {NoReport}]

\* JavaScript truthiness of a task id: null and "" are falsy.
TruthyNotNull(t) == t # Null
Truthy(t) == t \notin {Null, ""}

\* !response.ok || !payload.success || !payload.data
ResponseFailedOkOnly(r) == ~r.ok
ResponseFailed(r) == ~r.ok \/ ~r.success \/ ~r.hasData

\* The loop goes on to wait and retry:
\* !(payload.data.report_status !== "PENDING" || !taskId)
ShouldContinueAnyToken(status, tid) == status = "PENDING" \/ Truthy(tid)
ShouldContinue(status, tid) == status = "PENDING" /\ Truthy(tid)

\* for (...; attempt < 20; ...)
WithinBudgetInclusive(a) == a <= MaxAttempts
WithinBudget(a) == a < MaxAttempts

\* The query parameters of one request.
RequestParams(l, tid) ==
  [short_url |-> l.short_url,
   airbridge_link_id |-> l.airbridge_link_id,
   task_id |-> IF Truthy(tid) THEN tid ELSE Null,
   refresh |-> IF Truthy(tid) THEN "1" ELSE Null]

PollIdle ==
  /\ pollPc = "idle"
  /\ link = [short_url |-> "s", airbridge_link_id |-> Null]
  /\ attempt = 0
  /\ taskId = Null
  /\ requests = << >>
  /\ responses = << >>
  /\ waits = 0
  /\ isReportLoading = FALSE
  /\ reportTargetShortUrl = Null
  /\ selectedLinkReport = NoReport
  /\ errorMessage = Null

\* The page before the report button is pressed: an earlier report or an
\* earlier error may still be displayed.
PollInit ==
  /\ pollPc = "idle"
  /\ link \in [short_url : {"s"}, airbridge_link_id : {Null, "ab1"}]
  /\ attempt = 0
  /\ taskId = Null
  /\ requests = << >>
  /\ responses = << >>
  /\ waits = 0
  /\ isReportLoading = FALSE
  /\ reportTargetShortUrl = Null
  /\ selectedLinkReport \in {NoReport, OldReport}
  /\ errorMessage \in {Null, "old error"}

\* handleLoadLinkReport is entered and issues its first request.
LoadLinkReport ==
  /\ pollPc = "idle"
  /\ isReportLoading' = TRUE
  /\ reportTargetShortUrl' = link.short_url
  /\ errorMessage' = Null
  /\ taskId' = Null
  /\ attempt' = 0
  /\ IF WithinBudget(0)
       THEN /\ requests' = Append(requests, RequestParams(link, Null))
            /\ pollPc' = "fetch"
       ELSE /\ requests' = requests
            /\ pollPc' = "done"
  /\ UNCHANGED <<link, responses, waits, selectedLinkReport>>
  /\ UNCHANGED besidePoll

\* fetch or response.json() rejects: nothing catches it, finally runs.
FetchReject ==
  /\ pollPc = "fetch"
  /\ pollPc' = "done"
  /\ isReportLoading' = FALSE
  /\ reportTargetShortUrl' = Null
  /\ UNCHANGED <<link, attempt, taskId, requests, responses, waits,
                 selectedLinkReport, errorMessage>>
  /\ UNCHANGED besidePoll

\* A response arrives and the rest of the loop body runs up to the next await.
ReceiveResponse ==
  /\ pollPc = "fetch"
  /\ \E r \in PollResponses :
       /\ responses' = Append(responses, r)
       /\ IF ResponseFailed(r)
            THEN /\ selectedLinkReport' = NoReport
                 /\ errorMessage' = "report failed"
                 /\ pollPc' = "done"
                 /\ isReportLoading' = FALSE
                 /\ reportTargetShortUrl' = Null
                 /\ UNCHANGED <<taskId, waits>>
            ELSE /\ selectedLinkReport' = r.data
                 /\ taskId' = r.data.task_id
                 /\ IF ShouldContinue(r.data.report_status, r.data.task_id)
                      THEN /\ pollPc' = "wait"
                           /\ waits' = waits + 1
                           /\ UNCHANGED <<isReportLoading,
                                          reportTargetShortUrl>>
                      ELSE /\ pollPc' = "done"
                           /\ isReportLoading' = FALSE
                           /\ reportTargetShortUrl' = Null
                           /\ waits' = waits
                 /\ UNCHANGED errorMessage
  /\ UNCHANGED <<link, attempt, requests>>
  /\ UNCHANGED besidePoll

\* The fixed delay elapses: attempt += 1, then the loop test.
WaitElapsed ==
  /\ pollPc = "wait"
  /\ attempt' = attempt + 1
  /\ IF WithinBudget(attempt + 1)
       THEN /\ requests' = Append(requests, RequestParams(link, taskId))
            /\ pollPc' = "fetch"
            /\ UNCHANGED <<isReportLoading, reportTargetShortUrl>>
       ELSE /\ requests' = requests
            /\ pollPc' = "done"
            /\ isReportLoading' = FALSE
            /\ reportTargetShortUrl' = Null
  /\ UNCHANGED <<link, taskId, responses, waits, selectedLinkReport,
                 errorMessage>>
  /\ UNCHANGED besidePoll

PollNext ==
  \/ LoadLinkReport
  \/ FetchReject
  \/ ReceiveResponse
  \/ WaitElapsed

\* ======================================================================
\* Strings: sequences of characters
\* ======================================================================

\* An environment variable or a JSON field that is not there (undefined).
Unset == <<"undefined">>

Whitespace == {" ", "\t", "\n"}

RECURSIVE TrimStart(_)
TrimStart(str) ==
  IF str # << >> /\ Head(str) \in Whitespace THEN TrimStart(Tail(str)) ELSE str

RECURSIVE TrimEnd(_)
TrimEnd(str) ==
  IF str # << >> /\ str[Len(str)] \in Whitespace
    THEN TrimEnd(SubSeq(str, 1, Len(str) - 1))
    ELSE str

\* String.prototype.trim
Trim(str) == TrimEnd(TrimStart(str))

\* ======================================================================
\* Access gate: middleware, POST and DELETE /api/access
\* ======================================================================

NoCookie == "none"
NullCode == <<"null">>

\* getAccessGateCode: the trimmed ACCESS_GATE_CODE, or null.
GetAccessGateCodeNoTrim(env) ==
  IF env = Unset THEN NullCode
  ELSE IF Len(env) > 0 THEN env ELSE NullCode
GetAccessGateCode(env) ==
  IF env = Unset THEN NullCode
  ELSE IF Len(Trim(env)) > 0 THEN Trim(env) ELSE NullCode

\* A pathname is the sequence of its segments: /api/access is <<"api",
\* "access">>.  PUBLIC_PATHS
PublicPaths == {<<"enter">>, <<"api", "access">>}

\* pathname === path || pathname.startsWith(`${path}/`)
IsPublicPath(pathname) ==
  \E path \in PublicPaths :
    \/ pathname = path
    \/ /\ Len(pathname) > Len(path)
       /\ SubSeq(pathname, 1, Len(path)) = path

\* gateCookie === "verified"
IsVerifiedAnyValue(cookie) == cookie # NoCookie
IsVerified(cookie) == cookie = "verified"

PassThrough == [kind |-> "next", status |-> 200, pathname |-> << >>,
                next |-> << >>, setCookie |-> NoCookie]

\* NextResponse.redirect(/enter?next=<pathname + search>)
RedirectToEnter(pathname, search) ==
  [kind |-> "redirect", status |-> 307, pathname |-> <<"enter">>,
   next |-> <<pathname, search>>, setCookie |-> NoCookie]

\* middleware(request)
Middleware(env, pathname, search, cookie) ==
  IF GetAccessGateCode(env) = NullCode THEN PassThrough
  ELSE IF IsPublicPath(pathname) THEN PassThrough
  ELSE IF IsVerified(cookie) THEN PassThrough
  ELSE RedirectToEnter(pathname, search)

\* inputCode !== gateCode, negated
CodeMatchesNonEmpty(inputCode, gateCode) == inputCode # << >>
CodeMatches(inputCode, gateCode) == inputCode = gateCode

JsonAnswer(st, cookie) ==
  [kind |-> "json", status |-> st, pathname |-> << >>, next |-> << >>,
   setCookie |-> cookie]

\* POST /api/access with body.code = code (Unset: no code, or no JSON body)
AccessPostAnswer(env, code) ==
  LET gateCode == GetAccessGateCode(env)
      inputCode == IF code = Unset THEN << >> ELSE Trim(code)
  IN IF gateCode = NullCode THEN JsonAnswer(400, NoCookie)
     ELSE IF ~CodeMatches(inputCode, gateCode) THEN JsonAnswer(401, NoCookie)
     ELSE JsonAnswer(200, "verified")

GateEnvValues ==
  {Unset, << >>, <<" ">>, <<"\t", " ">>, <<"a", "b">>, <<" ", "a", "b", "\n">>}
CodeValues ==
  {Unset, << >>, <<" ">>, <<"a", "b">>, <<"a", "b", " ">>, <<"a">>,
   <<"a", " ", "b">>}
Pathnames ==
  {<< >>, <<"enter">>, <<"enter", "x">>, <<"enterprise">>, <<"api", "access">>,
   <<"api", "access", "x">>, <<"api", "links">>, <<"api">>}
Searches == {"", "?q=1"}

NoGateReq == [method |-> "none", pathname |-> << >>, search |-> "",
              cookie |-> NoCookie, code |-> Unset]
NoGateRes == [kind |-> "none", status |-> 0, pathname |-> << >>,
              next |-> << >>, setCookie |-> NoCookie]

GateIdle ==
  /\ gateEnv = Unset
  /\ jar = NoCookie
  /\ entered = FALSE
  /\ gateReq = NoGateReq
  /\ gateRes = NoGateRes

\* A deployment with some ACCESS_GATE_CODE and a browser that has not been
\* given the cookie (it may hold an unrelated value).
GateInit ==
  /\ gateEnv \in GateEnvValues
  /\ jar \in {NoCookie, "x"}
  /\ entered = FALSE
  /\ gateReq = NoGateReq
  /\ gateRes = NoGateRes

\* The browser requests a page or an API route; the middleware decides.
PageRequest ==
  /\ \E pathname \in Pathnames, search \in Searches :
       /\ gateReq' = [method |-> "GET", pathname |-> pathname,
                      search |-> search, cookie |-> jar, code |-> Unset]
       /\ gateRes' = Middleware(gateEnv, pathname, search, jar)
  /\ UNCHANGED <<gateEnv, jar, entered>>
  /\ UNCHANGED besideGate

\* The browser posts a code to /api/access: the middleware, then the route.
AccessPost ==
  /\ \E code \in CodeValues :
       LET pathname == <<"api", "access">>
           mw == Middleware(gateEnv, pathname, "", jar)
           answer == IF mw.kind = "next"
                       THEN AccessPostAnswer(gateEnv, code) ELSE mw
       IN /\ gateReq' = [method |-> "POST", pathname |-> pathname,
                         search |-> "", cookie |-> jar, code |-> code]
          /\ gateRes' = answer
          /\ jar' = IF answer.setCookie # NoCookie
                      THEN answer.setCookie ELSE jar
          /\ entered' = (entered \/ (/\ GetAccessGateCode(gateEnv) # NullCode
                                     /\ code # Unset
                                     /\ Trim(code) = Trim(gateEnv)))
  /\ UNCHANGED gateEnv
  /\ UNCHANGED besideGate

\* DELETE /api/access: the cookie is set to "" with maxAge 0, which makes the
\* browser drop it.
AccessDelete ==
  /\ LET pathname == <<"api", "access">>
         mw == Middleware(gateEnv, pathname, "", jar)
     IN /\ gateReq' = [method |-> "DELETE", pathname |-> pathname,
                       search |-> "", cookie |-> jar, code |-> Unset]
        /\ gateRes' = IF mw.kind = "next" THEN JsonAnswer(200, "") ELSE mw
        /\ jar' = IF mw.kind = "next" THEN NoCookie ELSE jar
  /\ UNCHANGED <<gateEnv, entered>>
  /\ UNCHANGED besideGate

GateNext ==
  \/ PageRequest
  \/ AccessPost
  \/ AccessDelete

\* ======================================================================
\* POST /api/admin/clear-links
\* ======================================================================

\* isTemplateValue: unset, blank, or one of the placeholder markers.  A
\* marker is one character of the model's strings.
IsTemplateValueBlankOnly(value) ==
  \/ value = Unset
  \/ Len(value) = 0
  \/ Len(Trim(value)) = 0
IsTemplateValue(value) ==
  \/ value = Unset
  \/ Len(value) = 0
  \/ LET normalized == Trim(value) IN
       \/ Len(normalized) = 0
       \/ normalized[1] = "__PUT_"
       \/ \E i \in 1..Len(normalized) : normalized[i] = "PUT_YOUR"
       \/ \E i \in 1..Len(normalized) : normalized[i] = "YOUR_"

\* process.env.ADMIN_CLEAR_KEY?.trim()
AdminKey(env) == IF env = Unset THEN Unset ELSE Trim(env)

\* body.key?.trim() ?? ""
ProvidedKey(key) == IF key = Unset THEN << >> ELSE Trim(key)

\* !(!providedKey || providedKey !== adminKey)
KeyAccepted(providedKey, adminKey) ==
  providedKey # << >> /\ providedKey = adminKey

AdminKeyValues ==
  {Unset, << >>, <<" ">>, <<"k">>, <<" ", "k", " ">>, <<"__PUT_", "k">>,
   <<"k", "YOUR_">>, <<"PUT_YOUR", "k">>}
KeyValues ==
  {Unset, << >>, <<"k">>, <<"k", " ">>, <<"j">>, <<"__PUT_", "k">>,
   <<"k", "YOUR_">>}

NoClearRes == [status |-> 0, deleted |-> 0]

ClearIdle ==
  /\ adminKeyEnv = Unset
  /\ clearPc = "idle"
  /\ clearKey = Unset
  /\ clearOps = << >>
  /\ countBefore = 0
  /\ removed = 0
  /\ linkTable = {}
  /\ clearRes = NoClearRes

ClearInit ==
  /\ adminKeyEnv \in AdminKeyValues
  /\ clearPc = "idle"
  /\ clearKey = Unset
  /\ clearOps = << >>
  /\ countBefore = 0
  /\ removed = 0
  /\ linkTable \in SUBSET (1..MaxRows)
  /\ clearRes = NoClearRes

\* POST is called with body.key = key: the checks up to the first await of
\* the database.
ClearPost ==
  /\ clearPc = "idle"
  /\ \E key \in KeyValues, hasClient \in BOOLEAN :
       /\ clearKey' = key
       /\ IF IsTemplateValue(AdminKey(adminKeyEnv))
            THEN /\ clearRes' = [status |-> 400, deleted |-> 0]
                 /\ clearPc' = "done"
                 /\ clearOps' = clearOps
            ELSE IF ~KeyAccepted(ProvidedKey(key), AdminKey(adminKeyEnv))
            THEN /\ clearRes' = [status |-> 401, deleted |-> 0]
                 /\ clearPc' = "done"
                 /\ clearOps' = clearOps
            ELSE IF ~hasClient
            THEN /\ clearRes' = [status |-> 400, deleted |-> 0]
                 /\ clearPc' = "done"
                 /\ clearOps' = clearOps
            ELSE /\ clearRes' = clearRes
                 /\ clearPc' = "count"
                 /\ clearOps' = Append(clearOps, "count")
  /\ UNCHANGED <<adminKeyEnv, countBefore, removed, linkTable>>
  /\ UNCHANGED besideClear

\* The count query settles; on success the delete is issued.
ClearCount ==
  /\ clearPc = "count"
  /\ \E ok \in BOOLEAN :
       IF ok
         THEN /\ countBefore' = Cardinality(linkTable)
              /\ clearPc' = "delete"
              /\ clearOps' = Append(clearOps, "delete")
              /\ clearRes' = clearRes
         ELSE /\ clearRes' = [status |-> 500, deleted |-> 0]
              /\ clearPc' = "done"
              /\ UNCHANGED <<countBefore, clearOps>>
  /\ UNCHANGED <<adminKeyEnv, clearKey, removed, linkTable>>
  /\ UNCHANGED besideClear

\* The delete settles: every row has a non-empty short_url and is removed.
ClearDelete ==
  /\ clearPc = "delete"
  /\ \E ok \in BOOLEAN :
       IF ok
         THEN /\ removed' = Cardinality(linkTable)
              /\ linkTable' = {}
              /\ clearRes' = [status |-> 200, deleted |-> countBefore]
         ELSE /\ clearRes' = [status |-> 500, deleted |-> 0]
              /\ UNCHANGED <<removed, linkTable>>
  /\ clearPc' = "done"
  /\ UNCHANGED <<adminKeyEnv, clearKey, clearOps, countBefore>>
  /\ UNCHANGED besideClear

\* A create-link request running beside the handler inserts a row.
ConcurrentInsert ==
  /\ clearPc \in {"count", "delete"}
  /\ \E id \in (1..MaxRows) \ linkTable : linkTable' = linkTable \cup {id}
  /\ UNCHANGED <<adminKeyEnv, clearPc, clearKey, clearOps, countBefore,
                 removed, clearRes>>
  /\ UNCHANGED besideClear

ClearNext ==
  \/ ClearPost
  \/ ClearCount
  \/ ClearDelete
  \/ ConcurrentInsert

\* ======================================================================
\* GET /api/link-report (app/api/link-report/route.ts)
\* ======================================================================
\* A query parameter that is absent reads as null; the handler trims the
\* others.  Short URLs are strings of chunks: "h" the origin, "/" a path
\* separator, any other chunk a path segment.

ShortUrlA == <<"h", "/", "a">>
ShortUrlB == <<"h", "/", "b">>
ShortUrlBare == <<"h", "/">>

\* searchParams.get(name)?.trim() ?? ""
Param(value) == IF value = Unset THEN << >> ELSE Trim(value)

\* extractShortIdFromUrl: the last non-empty path segment, null when the
\* URL does not parse or has no segment.
ExtractShortIdFromUrl(url) ==
  IF url = << >> \/ Head(url) # "h"
    THEN Unset
    ELSE LET parts == SelectSeq(Tail(url), LAMBDA c : c # "/")
         IN  IF parts = << >> THEN Unset ELSE <<parts[Len(parts)]>>

\* airbridgeLinkId || extractShortIdFromUrl(shortUrl)
Identifier(req) ==
  IF Param(req.airbridge_link_id) # << >>
    THEN Param(req.airbridge_link_id)
    ELSE ExtractShortIdFromUrl(Param(req.short_url))

\* searchParams.get("refresh") === "1"
ForceRefresh(req) == req.refresh = "1"

\* isTemplateValue(appName) || tokens.length === 0
EnvMissing(env) == ~env.appName \/ env.tokens = 0

\* getReportCacheTtlMs, in seconds
GetReportCacheTtl(reportStatus) ==
  IF reportStatus = "SUCCESS" THEN SuccessTtl
  ELSE IF reportStatus = "PENDING" THEN PendingTtl
  ELSE FailTtl

MaxPollAlwaysNew(requestedTaskId) == MaxPollNew

\* const maxPoll = requestedTaskId ? 1 : 2
MaxPoll(requestedTaskId) ==
  IF requestedTaskId # << >> THEN MaxPollResume ELSE MaxPollNew

\* if (!activeTaskId): a primary query is started only without a job id
MustStart(activeTaskId) == activeTaskId = << >>

\* !(activeTaskId && reportStatus === "UNAVAILABLE" && reportMessage)
\*   && activeTaskId
ShouldPoll(activeTaskId, reportStatus, hasMessage) ==
  /\ ~(activeTaskId # << >> /\ reportStatus = "UNAVAILABLE" /\ hasMessage)
  /\ activeTaskId # << >>

\* finalStatus === "SUCCESS" || "FAILURE" || "CANCELED"
IsTerminal(status) == status \in {"SUCCESS", "FAILURE", "CANCELED"}

\* The report status after the primary polling loop did not end in SUCCESS.
UnfinishedStatus(finalStatus, notFound) ==
  IF notFound THEN "UNSUPPORTED"
  ELSE IF finalStatus \in {"FAILURE", "CANCELED"} THEN finalStatus
  ELSE "PENDING"

\* responseData, restricted to the fields the cache and the client key on.
NoReportData == [task_id |-> Unset, report_status |-> "none", short_url |-> << >>]

\* tracking_link.short_url: detail.shortUrl ?? shortUrl
TrackingShortUrl(l, req) ==
  IF l.detailShortUrl # Unset THEN l.detailShortUrl ELSE Param(req.short_url)

ResponseData(l, req) ==
  [task_id |-> l.reportTaskId,
   report_status |-> l.reportStatus,
   short_url |-> TrackingShortUrl(l, req)]

\* cacheShortUrl = responseData.tracking_link.short_url || shortUrl
CacheShortUrl(l, req) ==
  IF TrackingShortUrl(l, req) # << >>
    THEN TrackingShortUrl(l, req)
    ELSE Param(req.short_url)

CacheKeys == {ShortUrlA, ShortUrlB, ShortUrlBare}

NoRow == [present |-> FALSE, report_status |-> "none", data |-> NoReportData,
          expires_at |-> 0]

CacheFreshInclusive(row, clock) == row.present /\ ~(row.expires_at < clock)

\* readCachedReport: the row's data unless missing or expired
CacheFresh(row, clock) == row.present /\ ~(row.expires_at <= clock)

\* writeCachedReport: the upserted row
CacheRow(reportStatus, data, clock) ==
  [present |-> TRUE, report_status |-> reportStatus, data |-> data,
   expires_at |-> clock + GetReportCacheTtl(reportStatus)]

NoRepRes == [status |-> 0, success |-> FALSE, cached |-> FALSE,
             data |-> NoReportData]

ErrorAnswer(code) == [status |-> code, success |-> FALSE, cached |-> FALSE,
                      data |-> NoReportData]

DataAnswer(data, fromCache) ==
  [status |-> 200, success |-> TRUE, cached |-> fromCache, data |-> data]

NoRepReq == [short_url |-> Unset, airbridge_link_id |-> Unset,
             task_id |-> Unset, refresh |-> "null"]

ShortUrlParams == {Unset, <<" ">> \o ShortUrlA, ShortUrlBare}
LinkIdParams == {Unset, <<"9">>}
TaskIdParams == {Unset, <<"T", " ">>}
RefreshParams == {"null", "1", "true"}
NewTaskId == <<"N">>
DetailShortUrls == {Unset, ShortUrlA, ShortUrlB}
PollStatuses == {"PENDING", "SUCCESS", "FAILURE", "CANCELED"}
TickSteps == {PendingTtl, FailTtl, SuccessTtl}

\* AIRBRIDGE_APP_NAME set or a placeholder; the number of distinct tokens
\* tokenCandidates() finds; what Airbridge holds for the tracking link the
\* requests name: data.shortUrl, and whether data carries a channel or
\* campaign parameter.
ReportEnvs ==
  [appName : {TRUE}, tokens : {2}, shortUrl : DetailShortUrls,
   campaignParams : BOOLEAN]
  \cup {[appName |-> TRUE, tokens |-> 0, shortUrl |-> Unset,
          campaignParams |-> FALSE],
        [appName |-> FALSE, tokens |-> 1, shortUrl |-> Unset,
          campaignParams |-> FALSE]}

\* Calls of the Airbridge report API by the request being served: whether
\* getReportMeta returned, primary queries started, the job id the start
\* returned, the job ids polled, fallback queries started.  And how its
\* cache read ("hit", "miss", "failed") and cache upsert ("stored",
\* "failed") ended, "none" when it made none.
NoCalls == [meta |-> "none", starts |-> 0, job |-> << >>, polled |-> << >>,
            fallbackStarts |-> 0, cacheRead |-> "none", cacheWrite |-> "none"]

IdleLocals ==
  [pc |-> "idle", tokenIdx |-> 0, detailShortUrl |-> Unset,
   detailParams |-> FALSE, activeTaskId |-> << >>, reportTaskId |-> Unset,
   reportStatus |-> "UNAVAILABLE", hasMessage |-> FALSE,
   finalStatus |-> "PENDING", i |-> 0]

ReportIdle ==
  /\ repEnv = [appName |-> FALSE, tokens |-> 0, shortUrl |-> Unset,
               campaignParams |-> FALSE]
  /\ repReq = NoRepReq
  /\ rep = IdleLocals
  /\ repCalls = NoCalls
  /\ repRes = NoRepRes
  /\ cache = [k \in CacheKeys |-> NoRow]
  /\ now = 0
  /\ ticks = 0
  /\ served = 0

ReportInit ==
  /\ repEnv \in ReportEnvs
  /\ repReq = NoRepReq
  /\ rep = IdleLocals
  /\ repCalls = NoCalls
  /\ repRes = NoRepRes
  /\ cache = [k \in CacheKeys |-> NoRow]
  /\ now = 0
  /\ ticks = 0
  /\ served = 0

\* The handler returns: its frame is dropped, the answer is kept.
Answer(res, c) ==
  /\ rep' = [IdleLocals EXCEPT !.pc = "done"]
  /\ repRes' = res
  /\ repCalls' = c

\* The handler suspends at an await with locals l.
Suspend(l, c) ==
  /\ rep' = l
  /\ repCalls' = c
  /\ UNCHANGED repRes

\* Lines 744-772: build responseData, write the cache when there is a key,
\* answer 200.  The locals of the try block are out of scope here.
Finish(l, c) ==
  IF CacheShortUrl(l, repReq) # << >>
    THEN Suspend([IdleLocals EXCEPT !.pc = "cacheWrite",
                                    !.detailShortUrl = l.detailShortUrl,
                                    !.reportTaskId = l.reportTaskId,
                                    !.reportStatus = l.reportStatus], c)
    ELSE Answer(DataAnswer(ResponseData(l, repReq), FALSE), c)

\* Lines 551-562: enter the polling loop, or skip it.
EnterPoll(l, c) ==
  IF ShouldPoll(l.activeTaskId, l.reportStatus, l.hasMessage)
    THEN Suspend([l EXCEPT !.pc = "poll", !.i = 0, !.finalStatus = "PENDING"],
                 [c EXCEPT !.polled = Append(@, l.activeTaskId)])
    ELSE Finish(l, c)

\* Lines 360-416: environment and identifier checks, first detail request.
AfterCache(req, c) ==
  IF EnvMissing(repEnv) \/ Identifier(req) = Unset
    THEN Answer(ErrorAnswer(400), c)
    ELSE Suspend([IdleLocals EXCEPT !.pc = "detail", !.tokenIdx = 1], c)

\* Lines 336-358: a request arrives.
RepGet ==
  /\ rep.pc \in {"idle", "done"}
  /\ served < MaxRequests
  /\ \E req \in [short_url : ShortUrlParams, airbridge_link_id : LinkIdParams,
                 task_id : TaskIdParams, refresh : RefreshParams] :
       /\ repReq' = req
       /\ IF Param(req.short_url) = << >> /\ Param(req.airbridge_link_id) = << >>
            THEN Answer(ErrorAnswer(400), NoCalls)
          ELSE IF Param(req.short_url) # << >> /\ ~ForceRefresh(req)
            THEN Suspend([IdleLocals EXCEPT !.pc = "cacheRead"], NoCalls)
          ELSE AfterCache(req, NoCalls)
  /\ served' = served + 1
  /\ UNCHANGED <<repEnv, cache, now, ticks>>
  /\ UNCHANGED besideReport

\* Lines 211-238, 350-358: the cache read settles.
CacheRead ==
  /\ rep.pc = "cacheRead"
  /\ \E readable \in BOOLEAN :
       LET key == Param(repReq.short_url)
           hit == /\ readable
                  /\ key \in CacheKeys
                  /\ CacheFresh(cache[key], now)
       IN  IF hit
             THEN Answer(DataAnswer(cache[key].data, TRUE),
                         [NoCalls EXCEPT !.cacheRead = "hit"])
             ELSE AfterCache(repReq,
                             [NoCalls EXCEPT !.cacheRead =
                                IF readable THEN "miss" ELSE "failed"])
  /\ UNCHANGED <<repEnv, repReq, cache, now, ticks, served>>
  /\ UNCHANGED besideReport

\* Lines 389-441: one tracking-link detail request settles.
Detail ==
  /\ rep.pc = "detail"
  /\ \/ Suspend([rep EXCEPT !.pc = "meta",
                           !.tokenIdx = 0,
                           !.detailShortUrl = repEnv.shortUrl,
                           !.detailParams = repEnv.campaignParams,
                           !.reportTaskId =
                              IF Param(repReq.task_id) # << >>
                                THEN Param(repReq.task_id) ELSE Unset],
               repCalls)
     \/ IF rep.tokenIdx < repEnv.tokens
          THEN Suspend([rep EXCEPT !.tokenIdx = @ + 1], repCalls)
          ELSE Answer(ErrorAnswer(502), repCalls)
     \/ Answer(ErrorAnswer(500), repCalls)
  /\ UNCHANGED <<repEnv, repReq, cache, now, ticks, served>>
  /\ UNCHANGED besideReport

\* Lines 466-503: the report metadata lookup settles.
Meta ==
  /\ rep.pc = "meta"
  /\ \/ LET l == [rep EXCEPT !.activeTaskId = Param(repReq.task_id)]
            c == [repCalls EXCEPT !.meta = "ok"]
        IN  IF MustStart(l.activeTaskId)
              THEN Suspend([l EXCEPT !.pc = "start"],
                           [c EXCEPT !.starts = @ + 1])
              ELSE EnterPoll(l, c)
     \/ Finish([rep EXCEPT !.reportStatus = "UNAVAILABLE", !.hasMessage = TRUE],
               [repCalls EXCEPT !.meta = "failed"])
  /\ UNCHANGED <<repEnv, repReq, cache, now, ticks, served>>
  /\ UNCHANGED besideReport

\* Lines 504-551: the request that starts the primary query settles.
StartQuery ==
  /\ rep.pc = "start"
  /\ \/ EnterPoll([rep EXCEPT !.activeTaskId = NewTaskId,
                              !.reportTaskId = NewTaskId],
                   [repCalls EXCEPT !.job = NewTaskId])
     \/ \E notFound \in BOOLEAN :
          EnterPoll([rep EXCEPT !.reportStatus =
                                   IF notFound THEN "UNSUPPORTED"
                                               ELSE "UNAVAILABLE",
                                !.hasMessage = TRUE], repCalls)
     \/ Finish([rep EXCEPT !.reportStatus = "UNAVAILABLE", !.hasMessage = TRUE],
               repCalls)
  /\ UNCHANGED <<repEnv, repReq, cache, now, ticks, served>>
  /\ UNCHANGED besideReport

\* Lines 572-736: what follows the primary polling loop.
AfterPoll(l, c, noRows, notFound) ==
  IF l.finalStatus = "SUCCESS"
    THEN IF noRows /\ l.detailParams
           THEN Suspend([l EXCEPT !.pc = "fallbackStart"],
                        [c EXCEPT !.fallbackStarts = @ + 1])
           ELSE Finish([l EXCEPT !.reportStatus = "SUCCESS"], c)
    ELSE Finish([l EXCEPT !.reportStatus =
                             UnfinishedStatus(l.finalStatus, notFound),
                          !.hasMessage = TRUE], c)

\* Lines 557-570: one poll of the primary job settles.
PollJob ==
  /\ rep.pc = "poll"
  /\ \/ \E s \in PollStatuses, noRows \in BOOLEAN, notFound \in BOOLEAN :
          LET l == [rep EXCEPT !.finalStatus = s]
          IN  IF IsTerminal(s)
                THEN AfterPoll(l, repCalls, noRows, notFound)
                ELSE Suspend([l EXCEPT !.pc = "sleep"], repCalls)
     \/ Finish([rep EXCEPT !.reportStatus = "UNAVAILABLE", !.hasMessage = TRUE],
               repCalls)
  /\ UNCHANGED <<repEnv, repReq, cache, now, ticks, served>>
  /\ UNCHANGED besideReport

\* Lines 556, 569: sleep(1000) elapses, the loop tests i < maxPoll.
SleepElapsed ==
  /\ rep.pc = "sleep"
  /\ LET l == [rep EXCEPT !.i = @ + 1]
     IN  IF l.i < MaxPoll(Param(repReq.task_id))
           THEN Suspend([l EXCEPT !.pc = "poll"],
                        [repCalls EXCEPT !.polled = Append(@, l.activeTaskId)])
           ELSE \E notFound \in BOOLEAN : AfterPoll(l, repCalls, FALSE, notFound)
  /\ UNCHANGED <<repEnv, repReq, cache, now, ticks, served>>
  /\ UNCHANGED besideReport

\* Lines 644-656: the request that starts the fallback query settles.
FallbackStart ==
  /\ rep.pc = "fallbackStart"
  /\ \/ Suspend([rep EXCEPT !.pc = "fallbackPoll"], repCalls)
     \/ Finish([rep EXCEPT !.reportStatus = "SUCCESS"], repCalls)
     \/ Finish([rep EXCEPT !.reportStatus = "UNAVAILABLE", !.hasMessage = TRUE],
               repCalls)
  /\ UNCHANGED <<repEnv, repReq, cache, now, ticks, served>>
  /\ UNCHANGED besideReport

\* Lines 658-714: the polling loop of the fallback job, run to its end
\* (its polls are not counted): the loop breaks on a terminal status or
\* runs out of its budget, or a poll throws into the catch of line 739.
FallbackPoll ==
  /\ rep.pc = "fallbackPoll"
  /\ \E failed \in BOOLEAN :
       Finish([rep EXCEPT !.reportStatus =
                            IF failed THEN "UNAVAILABLE" ELSE "SUCCESS",
                          !.hasMessage = failed],
              repCalls)
  /\ UNCHANGED <<repEnv, repReq, cache, now, ticks, served>>
  /\ UNCHANGED besideReport

\* Lines 240-261, 764-772: the cache upsert settles, the handler answers.
CacheWrite ==
  /\ rep.pc = "cacheWrite"
  /\ LET data == ResponseData(rep, repReq)
         key == CacheShortUrl(rep, repReq)
     IN  \E stored \in BOOLEAN :
           /\ cache' = IF stored /\ key \in CacheKeys
                          THEN [cache EXCEPT ![key] =
                                  CacheRow(rep.reportStatus, data, now)]
                          ELSE cache
           /\ Answer(DataAnswer(data, FALSE),
                     [repCalls EXCEPT !.cacheWrite =
                        IF stored THEN "stored" ELSE "failed"])
  /\ UNCHANGED <<repEnv, repReq, now, ticks, served>>
  /\ UNCHANGED besideReport

\* Time passes between two requests.
Tick ==
  /\ rep.pc = "done"
  /\ served < MaxRequests
  /\ ticks < MaxTicks
  /\ \E d \in TickSteps : now' = now + d
  /\ ticks' = ticks + 1
  /\ UNCHANGED <<repEnv, repReq, rep, repCalls, repRes, cache, served>>
  /\ UNCHANGED besideReport

ReportNext ==
  \/ RepGet
  \/ CacheRead
  \/ Detail
  \/ Meta
  \/ StartQuery
  \/ PollJob
  \/ SleepElapsed
  \/ FallbackStart
  \/ FallbackPoll
  \/ CacheWrite
  \/ Tick

\* ======================================================================
\* Bulk create-link endpoint: from the request body to dedupedTasks
\* (api/create-link/bulk/route.ts, lines 21-40 and 80-112)
\* ======================================================================
\* A list field of the body is absent, an array of strings or one string.

NoList == [kind |-> "undefined", items |-> << >>, text |-> << >>]
ArrayOf(items) == [kind |-> "array", items |-> items, text |-> << >>]
TextOf(text) == [kind |-> "string", items |-> << >>, text |-> text]

Separators == {",", "\n"}

RECURSIVE SplitList(_)
\* input.split(/[,\n]/)
SplitList(text) ==
  IF \A i \in 1..Len(text) : text[i] \notin Separators
    THEN <<text>>
    ELSE LET i == CHOOSE k \in 1..Len(text) :
                     /\ text[k] \in Separators
                     /\ \A j \in 1..(k - 1) : text[j] \notin Separators
         IN  <<SubSeq(text, 1, i - 1)>>
               \o SplitList(SubSeq(text, i + 1, Len(text)))

RECURSIVE Unique(_)
\* Array.from(new Set(values)): the first occurrences, in order
Unique(values) ==
  IF values = << >>
    THEN << >>
    ELSE LET front == Unique(SubSeq(values, 1, Len(values) - 1))
             last == values[Len(values)]
         IN  IF \E i \in 1..Len(front) : front[i] = last
               THEN front
               ELSE Append(front, last)

\* .map((value) => value.trim()).filter(Boolean)
TrimmedNonEmpty(values) ==
  SelectSeq([i \in 1..Len(values) |-> Trim(values[i])], LAMBDA v : v # << >>)

\* parseList
ParseList(input) ==
  IF input.kind = "undefined" \/ (input.kind = "string" /\ input.text = << >>)
    THEN << >>
  ELSE IF input.kind = "array"
    THEN Unique(TrimmedNonEmpty(input.items))
  ELSE Unique(TrimmedNonEmpty(SplitList(input.text)))

\* Lines 84-90: the tasks of one row
RowTasks(row) ==
  LET martCode == IF row.mart_code = Unset THEN << >> ELSE Trim(row.mart_code)
      adCreatives == ParseList(row.ad_creatives)
  IN  IF martCode = << >>
        THEN << >>
        ELSE [i \in 1..Len(adCreatives) |->
                [martCode |-> martCode, adCreative |-> adCreatives[i]]]

RECURSIVE RowsTasks(_)
\* Lines 83-91: the tasks of all rows, in order
RowsTasks(rows) ==
  IF rows = << >>
    THEN << >>
    ELSE RowTasks(Head(rows)) \o RowsTasks(Tail(rows))

\* Lines 93-99: every mart code with every creative
CrossTasks(martCodes, adCreatives) ==
  [k \in 1..(Len(martCodes) * Len(adCreatives)) |->
     [martCode |-> martCodes[((k - 1) \div Len(adCreatives)) + 1],
      adCreative |-> adCreatives[((k - 1) % Len(adCreatives)) + 1]]]

\* Lines 80-100: tasks
BuildTasks(b) ==
  IF b.rows # << >>
    THEN RowsTasks(b.rows)
    ELSE CrossTasks(ParseList(b.mart_codes), ParseList(b.ad_creatives))

\* `${task.martCode}__${task.adCreative}`
TaskKey(task) == task.martCode \o <<"_", "_">> \o task.adCreative

\* Lines 105-109: trimmed tasks with a mart code and a creative
CleanTasks(list) ==
  SelectSeq([i \in 1..Len(list) |->
               [martCode |-> Trim(list[i].martCode),
                adCreative |-> Trim(list[i].adCreative)]],
            LAMBDA t : t.martCode # << >> /\ t.adCreative # << >>)

RECURSIVE MapValues(_)
\* Array.from(new Map(entries).values()): a key keeps the position of its
\* first entry and the value of its last
MapValues(list) ==
  IF list = << >>
    THEN << >>
    ELSE LET front == MapValues(SubSeq(list, 1, Len(list) - 1))
             last == list[Len(list)]
         IN  IF \E i \in 1..Len(front) : TaskKey(front[i]) = TaskKey(last)
               THEN LET i == CHOOSE k \in 1..Len(front) :
                                TaskKey(front[k]) = TaskKey(last)
                    IN  [front EXCEPT ![i] = last]
               ELSE Append(front, last)

\* Lines 102-112: dedupedTasks
DedupeTasks(list) == MapValues(CleanTasks(list))

MartCodeValues == {Unset, <<" ", "a">>, <<"a", "_", "_", "b">>}
CreativeValues == {<<"c", " ">>, <<"b", "_", "_", "c">>, <<" ">>}
CreativeLists ==
  {NoList, TextOf(<<"c", ",", " ", "c">>),
   TextOf(<<"c", "\n", "b", "_", "_", "c", ",">>)}
  \cup {ArrayOf(<< >>)}
  \cup {ArrayOf(<<x>>) : x \in CreativeValues}
  \cup {ArrayOf(<<x, y>>) : x, y \in CreativeValues}
MartCodeLists ==
  {NoList, TextOf(<< >>), TextOf(<<"a", ",", "a", "_", "_", "b", ",", "a">>),
   ArrayOf(<<<<"a">>, <<"a", "_", "_", "b">>>>)}
BodyRows ==
  UNION {[1..n -> [mart_code : MartCodeValues, ad_creatives : CreativeLists]] :
           n \in 1..MaxBodyRows}
Bodies ==
  [rows : BodyRows, mart_codes : {NoList}, ad_creatives : {NoList}]
  \cup [rows : {<< >>}, mart_codes : MartCodeLists, ad_creatives : CreativeLists]

NoBody == [rows |-> << >>, mart_codes |-> NoList, ad_creatives |-> NoList]

DedupeIdle ==
  /\ body = NoBody
  /\ rawTasks = << >>
  /\ dedupedTasks = << >>
  /\ parsePc = "idle"

DedupeInit ==
  /\ body \in Bodies
  /\ rawTasks = << >>
  /\ dedupedTasks = << >>
  /\ parsePc = "request"

\* Lines 80-100: the tasks of the body.
ParseBody ==
  /\ parsePc = "request"
  /\ rawTasks' = BuildTasks(body)
  /\ parsePc' = "parsed"
  /\ UNCHANGED <<body, dedupedTasks>>
  /\ UNCHANGED besideDedupe

\* Lines 102-112: one task per key.
Dedupe ==
  /\ parsePc = "parsed"
  /\ dedupedTasks' = DedupeTasks(rawTasks)
  /\ parsePc' = "deduped"
  /\ UNCHANGED <<body, rawTasks>>
  /\ UNCHANGED besideDedupe

DedupeNext ==
  \/ ParseBody
  \/ Dedupe

\* ======================================================================
\* One link: createLinkRecord (lib/linkService.ts) and POST /api/create-link
\* ======================================================================
\* A creative name is a string of chunks: "banner" one of the allowed names,
\* "Banner" the same in upper case, "x" other letters, " " whitespace, "!" a
\* character outside [a-z0-9_-] and Hangul.
ALLOWED_CREATIVES == {<<"banner">>}

\* String.prototype.toLowerCase
ToLowerCase(str) ==
  [k \in 1..Len(str) |-> IF str[k] = "Banner" THEN "banner" ELSE str[k]]

\* replace(/\s+/g, "_"): every run of whitespace becomes one underscore
RECURSIVE ReplaceWhitespace(_)
ReplaceWhitespace(str) ==
  IF str = << >> THEN << >>
  ELSE IF Head(str) \in Whitespace
    THEN <<"_">> \o ReplaceWhitespace(TrimStart(str))
    ELSE <<Head(str)>> \o ReplaceWhitespace(Tail(str))

\* replace(/[^a-z0-9_가-힣-]/g, "")
RECURSIVE RemoveDisallowed(_)
RemoveDisallowed(str) ==
  IF str = << >> THEN << >>
  ELSE IF Head(str) \in {"banner", "x", "_"}
    THEN <<Head(str)>> \o RemoveDisallowed(Tail(str))
    ELSE RemoveDisallowed(Tail(str))

\* slice(0, 40)
Slice(str, n) == SubSeq(str, 1, IF Len(str) < n THEN Len(str) ELSE n)

\* normalizeCreativeForCampaign
NormalizeCreativeForCampaign(value) ==
  Slice(RemoveDisallowed(ReplaceWhitespace(ToLowerCase(Trim(value)))),
        MaxCreativeLen)

\* params.martCode?.trim(): undefined stays undefined
OptionalTrim(value) == IF value = Unset THEN Unset ELSE Trim(value)

\* !value for a string or undefined
Falsy(value) == value = Unset \/ value = << >>

\* The two validation checks, in the order of the code: the message of the
\* first one that fails, "none" when both pass.
ValidationFailure(req) ==
  IF Falsy(OptionalTrim(req.mart_code)) \/ Falsy(OptionalTrim(req.ad_creative))
    THEN "required"
  ELSE IF NormalizeCreativeForCampaign(OptionalTrim(req.ad_creative)) = << >>
    THEN "format"
  ELSE "none"

\* `${format(new Date(), "yyMMdd")}_${martCode}_${normalizedCreative}`
CampaignName(martCode, normalizedCreative) ==
  <<"yyMMdd", "_">> \o martCode \o <<"_">> \o normalizedCreative

\* ALLOWED_CREATIVES.includes(normalizedCreative) ? normalizedCreative : "custom"
SentCreative(normalizedCreative) ==
  IF normalizedCreative \in ALLOWED_CREATIVES
    THEN normalizedCreative
    ELSE <<"custom">>

\* The argument of createAirbridgeLink for a request that passed validation.
CreationParams(req) ==
  LET martCode == OptionalTrim(req.mart_code)
      normalizedCreative ==
        NormalizeCreativeForCampaign(OptionalTrim(req.ad_creative))
  IN  [campaignName |-> CampaignName(martCode, normalizedCreative),
       martCode |-> martCode,
       adCreative |-> SentCreative(normalizedCreative)]

\* What the Airbridge request can come to: a link, a non-2xx answer, a 2xx
\* answer without trackingLink.shortUrl, or fetch / response.json() rejecting.
AirbridgeOutcomes == {"ok", "notOk", "noShortUrl", "rejected"}

AirbridgeThrowsNotOkOnly(outcome) == outcome \in {"notOk", "rejected"}

\* createAirbridgeLink throws: !response.ok, !trackingLink?.shortUrl, or the
\* rejection passes through.
AirbridgeThrows(outcome) == outcome # "ok"

\* The code of the error createLinkRecord rejects with after a failed
\* creation: LinkServiceError AIRBRIDGE, or the plain Error of the rejection.
AirbridgeErrorCode(outcome) ==
  IF outcome = "rejected" THEN "Error" ELSE "AIRBRIDGE"

\* The short URLs the k-th creation yields: Airbridge and randomBytes never
\* give the same one twice.
ShortUrlIds == <<"u1", "u2", "u3", "u4">>
IssuedShortUrl(k, mock) ==
  IF mock THEN <<"mock", "/", ShortUrlIds[k]>> ELSE <<"h", "/", ShortUrlIds[k]>>

\* The row both handlers insert.
InsertedRow(req, shortUrl) ==
  [mart_code |-> OptionalTrim(req.mart_code),
   ad_creative |-> OptionalTrim(req.ad_creative),
   campaign_name |-> CreationParams(req).campaignName,
   short_url |-> shortUrl]

\* How a call ends: the HTTP status of the route, or the code of the error
\* createLinkRecord rejects with ("returned" when it resolves).
NoCreateRes == [status |-> 0, code |-> "none"]
RouteAnswer(status) == [status |-> status, code |-> "none"]
RecordEnd(code) == [status |-> 0, code |-> code]
CreateEnd(via, status, code) ==
  IF via = "route" THEN RouteAnswer(status) ELSE RecordEnd(code)

NoCreateReq ==
  [via |-> "none", json |-> FALSE, mart_code |-> Unset, ad_creative |-> Unset]

CreateMartCodes == {Unset, <<" ">>, <<" ", "m">>}
CreateCreatives ==
  {Unset, <<"!">>, <<"banner">>, <<" ", "Banner">>, <<"x", " ", "!", "x">>}

CreateReqs ==
  [via : {"route", "record"}, json : BOOLEAN,
   mart_code : CreateMartCodes, ad_creative : CreateCreatives]

CreateIdle ==
  /\ createEnv = [airbridge |-> FALSE, client |-> FALSE]
  /\ createReq = NoCreateReq
  /\ createPc = "idle"
  /\ airbridgeResult = Unset
  /\ creations = << >>
  /\ inserts = 0
  /\ linkRows = {}
  /\ createRes = NoCreateRes
  /\ createCount = 0

\* hasAirbridgeEnv and whether getSupabaseServerClient finds its keys.
CreateInit ==
  /\ createEnv \in [airbridge : BOOLEAN, client : BOOLEAN]
  /\ createReq = NoCreateReq
  /\ createPc = "idle"
  /\ airbridgeResult = Unset
  /\ creations = << >>
  /\ inserts = 0
  /\ linkRows = {}
  /\ createRes = NoCreateRes
  /\ createCount = 0

\* The handler ends with answer res.
CreateDone(res) ==
  /\ createPc' = "done"
  /\ createRes' = res
  /\ airbridgeResult' = Unset

\* A call arrives and runs up to the await of createAirbridgeLink: the
\* route's client check and body read, the validation, and the start of the
\* creation (which sends the Airbridge request, or takes the mock path).
CreateCall ==
  /\ createPc \in {"idle", "done"}
  /\ createCount < MaxCreates
  /\ \E req \in CreateReqs :
       /\ req.via = "record" => req.json /\ createEnv.client
       /\ createReq' = req
       /\ createCount' = createCount + 1
       /\ IF req.via = "route" /\ (~createEnv.client \/ ~req.json)
            THEN /\ CreateDone(RouteAnswer(400))
                 /\ UNCHANGED creations
          ELSE IF ValidationFailure(req) # "none"
            THEN /\ CreateDone(CreateEnd(req.via, 400, "VALIDATION"))
                 /\ UNCHANGED creations
          ELSE /\ createPc' = "airbridge"
               /\ creations' =
                    Append(creations,
                           [params |-> CreationParams(req),
                            mock |-> ~createEnv.airbridge,
                            shortUrl |-> Unset])
               /\ UNCHANGED <<airbridgeResult, createRes>>
  /\ UNCHANGED <<createEnv, inserts, linkRows>>
  /\ UNCHANGED besideCreate

\* createAirbridgeLink settles.  On a result the insert is issued; on a
\* throw the route answers 502 and createLinkRecord rejects.
CreationSettle ==
  /\ createPc = "airbridge"
  /\ \E outcome \in AirbridgeOutcomes :
       /\ creations[Len(creations)].mock => outcome = "ok"
       /\ IF AirbridgeThrows(outcome)
            THEN /\ CreateDone(CreateEnd(createReq.via, 502,
                                         AirbridgeErrorCode(outcome)))
                 /\ UNCHANGED <<creations, inserts>>
            ELSE LET k == Len(creations)
                     shortUrl ==
                       IF outcome = "ok"
                         THEN IssuedShortUrl(k, creations[k].mock)
                         ELSE Unset
                 IN  /\ creations' =
                           [creations EXCEPT ![k].shortUrl = shortUrl]
                     /\ airbridgeResult' = shortUrl
                     /\ inserts' = inserts + 1
                     /\ createPc' = "insert"
                     /\ UNCHANGED createRes
  /\ UNCHANGED <<createEnv, createReq, linkRows, createCount>>
  /\ UNCHANGED besideCreate

\* The insert settles: the row is stored and returned, or the database
\* reports an error.
CreateInsertSettle ==
  /\ createPc = "insert"
  /\ \E ok \in BOOLEAN :
       IF ok
         THEN /\ linkRows' =
                   linkRows \cup {InsertedRow(createReq, airbridgeResult)}
              /\ CreateDone(CreateEnd(createReq.via, 200, "returned"))
         ELSE /\ CreateDone(CreateEnd(createReq.via, 500, "DB"))
              /\ UNCHANGED linkRows
  /\ UNCHANGED <<createEnv, createReq, creations, inserts, createCount>>
  /\ UNCHANGED besideCreate

CreateNext == CreateCall \/ CreationSettle \/ CreateInsertSettle

\* ======================================================================
\* POST /api/marts/sync (app/api/marts/sync/route.ts)
\* ======================================================================
\* `${n}` for the small numbers of the model
NumberText(n) == <<"0", "1", "2", "3", "4", "5", "6", "7", "8", "9">>[n + 1]

RECURSIVE DedupeByMartId(_)
\* dedupeByMartId: a Map keyed by mart_id keeps the position of the first
\* record of an id and the value of the last; dropped counts the overwrites
DedupeByMartId(list) ==
  IF list = << >>
    THEN [records |-> << >>, dropped |-> 0]
    ELSE LET front == DedupeByMartId(SubSeq(list, 1, Len(list) - 1))
             record == list[Len(list)]
             has == \E i \in 1..Len(front.records) :
                      front.records[i].mart_id = record.mart_id
         IN  IF has
               THEN LET i == CHOOSE k \in 1..Len(front.records) :
                                front.records[k].mart_id = record.mart_id
                    IN  [records |-> [front.records EXCEPT ![i] = record],
                         dropped |-> front.dropped + 1]
               ELSE [records |-> Append(front.records, record),
                     dropped |-> front.dropped]

\* record.code?.trim() || `mart_${record.mart_id}`
BaseCode(record) ==
  IF record.code = Unset \/ Trim(record.code) = << >>
    THEN <<"mart", "_", NumberText(record.mart_id)>>
    ELSE Trim(record.code)

\* `${baseCode}_${record.mart_id}` and `${baseCode}_${record.mart_id}_${sequence}`
SuffixedCode(record, sequence) ==
  IF sequence = 1
    THEN BaseCode(record) \o <<"_", NumberText(record.mart_id)>>
    ELSE BaseCode(record) \o <<"_", NumberText(record.mart_id)>>
                          \o <<"_", NumberText(sequence)>>

RECURSIVE FreeInBatch(_, _, _)
\* lines 187-192: the suffixed candidate, its sequence counted up while the
\* batch has used the candidate
FreeInBatch(record, sequence, usedCodes) ==
  IF SuffixedCode(record, sequence) \in usedCodes
    THEN FreeInBatch(record, sequence + 1, usedCodes)
    ELSE SuffixedCode(record, sequence)

RECURSIVE EnsureUniqueCodesInBatch(_)
\* ensureUniqueCodesInBatch: the records in order, each with the first
\* candidate the batch has not used yet
EnsureUniqueCodesInBatch(list) ==
  IF list = << >>
    THEN [records |-> << >>, usedCodes |-> {}, adjustedCount |-> 0]
    ELSE LET front ==
               EnsureUniqueCodesInBatch(SubSeq(list, 1, Len(list) - 1))
             record == list[Len(list)]
             adjusted == BaseCode(record) \in front.usedCodes
             candidate ==
               IF adjusted
                 THEN FreeInBatch(record, 1, front.usedCodes)
                 ELSE BaseCode(record)
         IN  [records |->
                Append(front.records, [record EXCEPT !.code = candidate]),
              usedCodes |-> front.usedCodes \cup {candidate},
              adjustedCount |->
                front.adjustedCount + (IF adjusted THEN 1 ELSE 0)]

\* lines 309-318: the codes of the rows read, and the code of each mart_id;
\* a row without a code adds to neither
ReservedCodes(rows) == {row.code : row \in {r \in rows : r.code # << >>}}
CurrentCode(rows, martId) ==
  IF \E row \in rows : row.mart_id = martId /\ row.code # << >>
    THEN (CHOOSE row \in rows : row.mart_id = martId /\ row.code # << >>).code
    ELSE Null

IsConflictBatchOnly(code, usedCodes, reserved, currentCode) ==
  code \in usedCodes
\* isConflict of the record whose current code is currentCode
IsConflict(code, usedCodes, reserved, currentCode) ==
  \/ code \in usedCodes
  \/ code \in reserved /\ (currentCode = Null \/ code # currentCode)

\* The candidate of the given sequence: the base code at 0.
DbCandidate(record, sequence) ==
  IF sequence = 0 THEN BaseCode(record) ELSE SuffixedCode(record, sequence)

RECURSIVE FreeInDb(_, _, _, _)
\* lines 222-229: [candidate, loop passes] when the loop leaves
FreeInDb(record, sequence, usedCodes, rows) ==
  IF IsConflict(DbCandidate(record, sequence), usedCodes,
                ReservedCodes(rows), CurrentCode(rows, record.mart_id))
    THEN FreeInDb(record, sequence + 1, usedCodes, rows)
    ELSE [candidate |-> DbCandidate(record, sequence), passes |-> sequence]

RECURSIVE EnsureCodesNotCollidingWithDb(_, _)
\* ensureCodesNotCollidingWithDb
EnsureCodesNotCollidingWithDb(list, rows) ==
  IF list = << >>
    THEN [records |-> << >>, usedCodes |-> {}, adjustedCount |-> 0]
    ELSE LET front ==
               EnsureCodesNotCollidingWithDb(SubSeq(list, 1, Len(list) - 1),
                                             rows)
             record == list[Len(list)]
             free == FreeInDb(record, 0, front.usedCodes, rows)
         IN  [records |->
                Append(front.records,
                       [record EXCEPT !.code = free.candidate]),
              usedCodes |-> front.usedCodes \cup {free.candidate},
              adjustedCount |-> front.adjustedCount + free.passes]

\* The records loadMartsFromGoogleSheets can give: name stands for the
\* other columns and is the row's position in the sheet.
SyncMartIds == 1..3
SyncCodes == {<< >>, <<"a">>, <<" ", "a">>, <<"a", "_", "2">>}
SheetRecords(n) ==
  {list \in [1..n -> [mart_id : SyncMartIds, code : SyncCodes,
                      name : 1..n]] :
     \A i \in 1..n : list[i].name = i}
SheetLists == UNION {SheetRecords(n) : n \in 0..MaxRecords}

\* What select("mart_id, code") can return: the marts table keeps mart_id
\* and code unique (marts_code_key); a code may be empty.
DbRows == [mart_id : {2, 3}, code : {<< >>, <<"a">>, <<"a", "_", "1">>}]
ExistingTables ==
  {rows \in SUBSET DbRows :
     \A r, q \in rows :
       r # q => r.mart_id # q.mart_id /\ r.code # q.code}

NoNormalized == [records |-> << >>, usedCodes |-> {}, adjustedCount |-> 0]
NoResult == [error |-> FALSE, message |-> {}]
NoSyncRes == [status |-> 0, upserted |-> 0]
NoDbCalls == [first |-> 0, existing |-> 0, second |-> 0]

SyncLocalsIdle ==
  /\ dedupedByMartIdRecords = << >>
  /\ dropped = 0
  /\ uniqueBatchRecords = << >>
  /\ existingRows = {}
  /\ normalizedWithDb = NoNormalized
  /\ actionName = "none"
  /\ syncAttempt = 0
  /\ lastResult = NoResult
  /\ firstUpsert = NoResult
  /\ dbCalls = NoDbCalls
  /\ accepted = << >>
  /\ syncRes = NoSyncRes

SyncIdle ==
  /\ records = << >>
  /\ syncEnv = [google |-> FALSE, client |-> FALSE]
  /\ syncPc = "idle"
  /\ SyncLocalsIdle

\* ----------------------------------------------------------------------
\* The three normalizations applied one after the other to any sheet.
\* ----------------------------------------------------------------------
NormalizeInit ==
  /\ records \in SheetLists
  /\ syncEnv = [google |-> TRUE, client |-> TRUE]
  /\ syncPc = "records"
  /\ SyncLocalsIdle

ApplyDedupeByMartId ==
  /\ syncPc = "records"
  /\ dedupedByMartIdRecords' = DedupeByMartId(records).records
  /\ dropped' = DedupeByMartId(records).dropped
  /\ syncPc' = "deduped"
  /\ UNCHANGED <<records, syncEnv, uniqueBatchRecords, existingRows,
                 normalizedWithDb, actionName, syncAttempt, lastResult,
                 firstUpsert, dbCalls, accepted, syncRes>>
  /\ UNCHANGED besideSync

ApplyEnsureUniqueCodesInBatch ==
  /\ syncPc = "deduped"
  /\ uniqueBatchRecords' =
       EnsureUniqueCodesInBatch(dedupedByMartIdRecords).records
  /\ syncPc' = "unique"
  /\ UNCHANGED <<records, syncEnv, dedupedByMartIdRecords, dropped,
                 existingRows, normalizedWithDb, actionName, syncAttempt,
                 lastResult, firstUpsert, dbCalls, accepted, syncRes>>
  /\ UNCHANGED besideSync

ApplyEnsureCodesNotCollidingWithDb ==
  /\ syncPc = "unique"
  /\ \E rows \in ExistingTables :
       /\ existingRows' = rows
       /\ normalizedWithDb' =
            EnsureCodesNotCollidingWithDb(uniqueBatchRecords, rows)
  /\ syncPc' = "normalized"
  /\ UNCHANGED <<records, syncEnv, dedupedByMartIdRecords, dropped,
                 uniqueBatchRecords, actionName, syncAttempt, lastResult,
                 firstUpsert, dbCalls, accepted, syncRes>>
  /\ UNCHANGED besideSync

NormalizeNext ==
  \/ ApplyDedupeByMartId
  \/ ApplyEnsureUniqueCodesInBatch
  \/ ApplyEnsureCodesNotCollidingWithDb

\* ----------------------------------------------------------------------
\* The handler.
\* ----------------------------------------------------------------------
\* An error message is the set of the telling substrings it contains.
ErrorMarkers == {"fetch failed", "ETIMEDOUT", "marts_code_key",
                 "Could not find the"}
ErrorResult(message) == [error |-> TRUE, message |-> message]
SupabaseResults == {NoResult} \cup {ErrorResult(m) : m \in SUBSET ErrorMarkers}

\* message.toLowerCase() includes one of the five transient substrings
LowerMarker(marker) == IF marker = "ETIMEDOUT" THEN "etimedout" ELSE marker
IsTransientFetchError(message) ==
  {LowerMarker(m) : m \in message}
    \cap {"fetch failed", "etimedout", "econnreset", "network", "socket"}
    # {}

\* isDuplicateCodeError
IsDuplicateCodeError(message) ==
  message \cap {"marts_code_key",
                "duplicate key value violates unique constraint"} # {}

\* isSchemaColumnMissing
IsSchemaColumnMissing(message) == "Could not find the" \in message

RetriesSupabaseAlways(result, n) == result.error /\ n # SupabaseRetries
\* runSupabaseWithRetry goes round again after this result of this attempt:
\* !(!isTransientFetchError(message) || attempt === retries)
RetriesSupabase(result, n) ==
  /\ result.error
  /\ IsTransientFetchError(result.message)
  /\ n # SupabaseRetries

\* The sheets the handler is run on.
SyncSheets ==
  {<< >>,
   <<[mart_id |-> 1, code |-> <<"a">>, name |-> 1]>>,
   <<[mart_id |-> 1, code |-> <<"a">>, name |-> 1],
     [mart_id |-> 2, code |-> <<"a">>, name |-> 2]>>}

SyncInit ==
  /\ records \in SyncSheets
  /\ syncEnv \in [google : BOOLEAN, client : BOOLEAN]
  /\ syncPc = "idle"
  /\ SyncLocalsIdle

\* The handler answers.
SyncAnswer(status, upserted) ==
  /\ syncRes' = [status |-> status, upserted |-> upserted]
  /\ syncPc' = "done"

\* runSupabaseWithRetry(name, fn) is entered and makes its first call.
IssueDbAction(name) ==
  /\ actionName' = name
  /\ syncAttempt' = 0
  /\ dbCalls' = [dbCalls EXCEPT ![name] = @ + 1]
  /\ syncPc' = "call"

\* Lines 335-370: the answer for the final upsert's result.
AnswerFinalUpsert(result, sent) ==
  IF result.error
    THEN /\ SyncAnswer(IF IsSchemaColumnMissing(result.message)
                         THEN 400 ELSE 500, 0)
         /\ UNCHANGED accepted
    ELSE /\ SyncAnswer(200, Len(sent))
         /\ accepted' = sent

\* Lines 239-262: the environment checks, then the sheet is loaded.
SyncPost ==
  /\ syncPc = "idle"
  /\ IF ~syncEnv.google \/ ~syncEnv.client
       THEN SyncAnswer(400, 0)
       ELSE /\ syncPc' = "load"
            /\ UNCHANGED syncRes
  /\ UNCHANGED <<records, syncEnv, dedupedByMartIdRecords, dropped,
                 uniqueBatchRecords, existingRows, normalizedWithDb,
                 actionName, syncAttempt, lastResult, firstUpsert, dbCalls,
                 accepted>>
  /\ UNCHANGED besideSync

\* Lines 262-286: loadMartsFromGoogleSheets settles; the records are
\* normalized within the batch and the first upsert is issued.
SyncLoaded ==
  /\ syncPc = "load"
  /\ \E ok \in BOOLEAN :
       IF ~ok
         THEN /\ SyncAnswer(500, 0)
              /\ UNCHANGED <<dedupedByMartIdRecords, dropped,
                             uniqueBatchRecords, actionName, syncAttempt,
                             dbCalls>>
         ELSE LET deduped == DedupeByMartId(records)
                  unique == EnsureUniqueCodesInBatch(deduped.records)
              IN  /\ dedupedByMartIdRecords' = deduped.records
                  /\ dropped' = deduped.dropped
                  /\ uniqueBatchRecords' = unique.records
                  /\ IF Len(unique.records) = 0
                       THEN /\ SyncAnswer(200, 0)
                            /\ UNCHANGED <<actionName, syncAttempt, dbCalls>>
                       ELSE /\ IssueDbAction("first")
                            /\ UNCHANGED syncRes
  /\ UNCHANGED <<records, syncEnv, existingRows, normalizedWithDb,
                 lastResult, firstUpsert, accepted>>
  /\ UNCHANGED besideSync

\* Lines 137-152: a call of fn settles and runSupabaseWithRetry sleeps
\* before the next attempt.
DbCallRetried ==
  /\ syncPc = "call"
  /\ \E result \in SupabaseResults :
       /\ RetriesSupabase(result, syncAttempt)
       /\ lastResult' = result
  /\ syncPc' = "sleep"
  /\ UNCHANGED <<records, syncEnv, dedupedByMartIdRecords, dropped,
                 uniqueBatchRecords, existingRows, normalizedWithDb,
                 actionName, syncAttempt, firstUpsert, dbCalls, accepted,
                 syncRes>>
  /\ UNCHANGED besideSync

\* Lines 136-137, 152: the delay elapses, attempt += 1, fn is called again.
DbRetrySleepElapsed ==
  /\ syncPc = "sleep"
  /\ syncAttempt' = syncAttempt + 1
  /\ dbCalls' = [dbCalls EXCEPT ![actionName] = @ + 1]
  /\ syncPc' = "call"
  /\ UNCHANGED <<records, syncEnv, dedupedByMartIdRecords, dropped,
                 uniqueBatchRecords, existingRows, normalizedWithDb,
                 actionName, lastResult, firstUpsert, accepted, syncRes>>
  /\ UNCHANGED besideSync

\* Lines 281-370: the last call of the first upsert settles.
FirstUpsertReturned ==
  /\ syncPc = "call"
  /\ actionName = "first"
  /\ \E result \in SupabaseResults :
       /\ ~RetriesSupabase(result, syncAttempt)
       /\ lastResult' = result
       /\ firstUpsert' = result
       /\ IF result.error /\ IsDuplicateCodeError(result.message)
            THEN /\ IssueDbAction("existing")
                 /\ UNCHANGED <<accepted, syncRes>>
            ELSE /\ AnswerFinalUpsert(result, uniqueBatchRecords)
                 /\ UNCHANGED <<actionName, syncAttempt, dbCalls>>
  /\ UNCHANGED <<records, syncEnv, dedupedByMartIdRecords, dropped,
                 uniqueBatchRecords, existingRows, normalizedWithDb>>
  /\ UNCHANGED besideSync

\* Lines 291-332: the last call of the select settles.
ExistingRowsReturned ==
  /\ syncPc = "call"
  /\ actionName = "existing"
  /\ \E result \in SupabaseResults :
       /\ ~RetriesSupabase(result, syncAttempt)
       /\ lastResult' = result
       /\ IF result.error
            THEN /\ SyncAnswer(500, 0)
                 /\ UNCHANGED <<existingRows, normalizedWithDb, actionName,
                                syncAttempt, dbCalls>>
            ELSE \E rows \in ExistingTables :
                   /\ existingRows' = rows
                   /\ normalizedWithDb' =
                        EnsureCodesNotCollidingWithDb(
                          uniqueBatchRecords, rows)
                   /\ IssueDbAction("second")
                   /\ UNCHANGED syncRes
  /\ UNCHANGED <<records, syncEnv, dedupedByMartIdRecords, dropped,
                 uniqueBatchRecords, firstUpsert, accepted>>
  /\ UNCHANGED besideSync

\* Lines 327-370: the last call of the second upsert settles.
SecondUpsertReturned ==
  /\ syncPc = "call"
  /\ actionName = "second"
  /\ \E result \in SupabaseResults :
       /\ ~RetriesSupabase(result, syncAttempt)
       /\ lastResult' = result
       /\ AnswerFinalUpsert(result, normalizedWithDb.records)
  /\ UNCHANGED <<records, syncEnv, dedupedByMartIdRecords, dropped,
                 uniqueBatchRecords, existingRows, normalizedWithDb,
                 actionName, syncAttempt, firstUpsert, dbCalls>>
  /\ UNCHANGED besideSync

\* Lines 371-386: a call of fn rejects; the catch block answers 500.
DbCallRejected ==
  /\ syncPc = "call"
  /\ SyncAnswer(500, 0)
  /\ UNCHANGED <<records, syncEnv, dedupedByMartIdRecords, dropped,
                 uniqueBatchRecords, existingRows, normalizedWithDb,
                 actionName, syncAttempt, lastResult, firstUpsert, dbCalls,
                 accepted>>
  /\ UNCHANGED besideSync

SyncNext ==
  \/ SyncPost
  \/ SyncLoaded
  \/ DbCallRetried
  \/ DbRetrySleepElapsed
  \/ FirstUpsertReturned
  \/ ExistingRowsReturned
  \/ SecondUpsertReturned
  \/ DbCallRejected

\* ======================================================================
\* withRetry and loadMartsFromGoogleSheets (lib/googleSheets.ts)
\* ======================================================================
\* What fn can reject with: an Error or some other value, whose message
\* (or text) holds one of these substrings.  "etimedout" differs from
\* ETIMEDOUT in case only.
ThrownValues ==
  [isError : BOOLEAN,
   message : {"Request timed out", "ETIMEDOUT", "ECONNRESET", "etimedout",
              "Sheet not found"}]
NoError == [isError |-> FALSE, message |-> "none"]

IsTimeoutErrorAnyError(error) == error.isError
\* isTimeoutError
IsTimeoutError(error) ==
  /\ error.isError
  /\ error.message \in {"Request timed out", "ETIMEDOUT", "ECONNRESET"}

RECURSIVE Pow2(_)
\* Math.pow(2, attempt)
Pow2(n) == IF n = 0 THEN 1 ELSE 2 * Pow2(n - 1)

\* options.baseDelayMs * Math.pow(2, attempt)
RetryDelay(options, n) == options.baseDelayMs * Pow2(n)

\* !isTimeoutError(error) || isLast
Rethrows(error, options, n) == ~IsTimeoutError(error) \/ n = options.retries

\* The three reads of the loader, each through withRetry: doc.loadInfo,
\* the manager rows, the mart rows.
LoaderReads == 1..3

\* The options withRetry is given: the loader's {retries: 2, baseDelayMs:
\* 600}, and others.
RetryOptions ==
  [retries : 0..MaxRetries, baseDelayMs : {0, SheetsBaseDelayMs}]

NoFnCalls == [read \in LoaderReads |-> 0]
NoDelays == [read \in LoaderReads |-> << >>]

RetryIdle ==
  /\ retryOptions = [retries |-> 0, baseDelayMs |-> 0]
  /\ loadRead = 0
  /\ retryPc = "idle"
  /\ retryAttempt = 0
  /\ fnCalls = NoFnCalls
  /\ rejections = NoFnCalls
  /\ delays = NoDelays
  /\ lastError = NoError
  /\ loadRes = NoError

RetryInit ==
  /\ retryOptions \in RetryOptions
  /\ loadRead = 0
  /\ retryPc = "idle"
  /\ retryAttempt = 0
  /\ fnCalls = NoFnCalls
  /\ rejections = NoFnCalls
  /\ delays = NoDelays
  /\ lastError = NoError
  /\ loadRes = NoError

\* withRetry is entered for the given read: attempt = 0, fn is called.
EnterWithRetry(read) ==
  /\ loadRead' = read
  /\ retryAttempt' = 0
  /\ fnCalls' = [fnCalls EXCEPT ![read] = @ + 1]
  /\ retryPc' = "call"

\* Lines 126-152: the loader builds the document and loads its info.
LoadMarts ==
  /\ retryPc = "idle"
  /\ EnterWithRetry(1)
  /\ UNCHANGED <<retryOptions, rejections, delays, lastError, loadRes>>
  /\ UNCHANGED besideRetry

\* Line 48, lines 154-234: fn resolves and withRetry returns its value; the
\* loader goes on to its next read, throws for a missing sheet after the
\* first one, or returns after the last one.
FnResolved ==
  /\ retryPc = "call"
  /\ \E sheetsFound \in BOOLEAN :
       IF loadRead = 1 /\ ~sheetsFound
         THEN /\ retryPc' = "thrown"
              /\ loadRes' = [isError |-> TRUE, message |-> "Sheet not found"]
              /\ UNCHANGED <<loadRead, retryAttempt, fnCalls>>
         ELSE IF loadRead < 3
         THEN /\ EnterWithRetry(loadRead + 1)
              /\ UNCHANGED loadRes
         ELSE /\ retryPc' = "returned"
              /\ UNCHANGED <<loadRead, retryAttempt, fnCalls, loadRes>>
  /\ UNCHANGED <<retryOptions, rejections, delays, lastError>>
  /\ UNCHANGED besideRetry

\* Lines 49-57: fn rejects; withRetry rethrows, which ends the loader, or
\* starts to wait.
FnRejected ==
  /\ retryPc = "call"
  /\ \E error \in ThrownValues :
       /\ lastError' = error
       /\ rejections' = [rejections EXCEPT ![loadRead] = @ + 1]
       /\ IF Rethrows(error, retryOptions, retryAttempt)
            THEN /\ retryPc' = "thrown"
                 /\ loadRes' = error
                 /\ UNCHANGED delays
            ELSE /\ retryPc' = "sleep"
                 /\ delays' =
                      [delays EXCEPT ![loadRead] =
                         Append(@, RetryDelay(retryOptions, retryAttempt))]
                 /\ UNCHANGED loadRes
  /\ UNCHANGED <<retryOptions, loadRead, retryAttempt, fnCalls>>
  /\ UNCHANGED besideRetry

\* Lines 46-48, 57: the delay elapses, attempt += 1, fn is called again.
RetrySleepElapsed ==
  /\ retryPc = "sleep"
  /\ retryAttempt' = retryAttempt + 1
  /\ fnCalls' = [fnCalls EXCEPT ![loadRead] = @ + 1]
  /\ retryPc' = "call"
  /\ UNCHANGED <<retryOptions, loadRead, rejections, delays, lastError,
                 loadRes>>
  /\ UNCHANGED besideRetry

RetryNext == LoadMarts \/ FnResolved \/ FnRejected \/ RetrySleepElapsed

\* ======================================================================
\* Specifications
\* ======================================================================

Init ==
  /\ RunnerInit
  /\ PollIdle
  /\ GateIdle
  /\ ClearIdle
  /\ ReportIdle
  /\ DedupeIdle
  /\ CreateIdle
  /\ SyncIdle
  /\ RetryIdle

Next == RunnerNext

Spec == Init /\ [][Next]_vars

\* Every started invocation eventually settles and every resumable worker is
\* eventually resumed.
Fairness ==
  /\ WF_vars(Start)
  /\ WF_vars(Spawn)
  /\ \A i \in WorkerIds : WF_vars(AirbridgeSettle(i))
  /\ \A i \in WorkerIds : WF_vars(InsertSettle(i))
  /\ \A i \in WorkerIds : WF_vars(Catch(i))
  /\ \A i \in WorkerIds : WF_vars(Resume(i))
  /\ WF_vars(Return)

FairSpec == Init /\ [][Next]_vars /\ Fairness

PollSpecInit ==
  /\ RunnerIdle
  /\ PollInit
  /\ GateIdle
  /\ ClearIdle
  /\ ReportIdle
  /\ DedupeIdle
  /\ CreateIdle
  /\ SyncIdle
  /\ RetryIdle

PollSpec == PollSpecInit /\ [][PollNext]_vars

GateSpecInit ==
  /\ RunnerIdle
  /\ PollIdle
  /\ GateInit
  /\ ClearIdle
  /\ ReportIdle
  /\ DedupeIdle
  /\ CreateIdle
  /\ SyncIdle
  /\ RetryIdle

GateSpec == GateSpecInit /\ [][GateNext]_vars

ClearSpecInit ==
  /\ RunnerIdle
  /\ PollIdle
  /\ GateIdle
  /\ ClearInit
  /\ ReportIdle
  /\ DedupeIdle
  /\ CreateIdle
  /\ SyncIdle
  /\ RetryIdle

ClearSpec == ClearSpecInit /\ [][ClearNext]_vars

ReportSpecInit ==
  /\ RunnerIdle
  /\ PollIdle
  /\ GateIdle
  /\ ClearIdle
  /\ ReportInit
  /\ DedupeIdle
  /\ CreateIdle
  /\ SyncIdle
  /\ RetryIdle

ReportSpec == ReportSpecInit /\ [][ReportNext]_vars

DedupeSpecInit ==
  /\ RunnerIdle
  /\ PollIdle
  /\ GateIdle
  /\ ClearIdle
  /\ ReportIdle
  /\ DedupeInit
  /\ CreateIdle
  /\ SyncIdle
  /\ RetryIdle

DedupeSpec == DedupeSpecInit /\ [][DedupeNext]_vars

CreateSpecInit ==
  /\ RunnerIdle
  /\ PollIdle
  /\ GateIdle
  /\ ClearIdle
  /\ ReportIdle
  /\ DedupeIdle
  /\ CreateInit
  /\ SyncIdle
  /\ RetryIdle

CreateSpec == CreateSpecInit /\ [][CreateNext]_vars

NormalizeSpecInit ==
  /\ RunnerIdle
  /\ PollIdle
  /\ GateIdle
  /\ ClearIdle
  /\ ReportIdle
  /\ DedupeIdle
  /\ CreateIdle
  /\ NormalizeInit
  /\ RetryIdle

NormalizeSpec == NormalizeSpecInit /\ [][NormalizeNext]_vars

SyncSpecInit ==
  /\ RunnerIdle
  /\ PollIdle
  /\ GateIdle
  /\ ClearIdle
  /\ ReportIdle
  /\ DedupeIdle
  /\ CreateIdle
  /\ SyncInit
  /\ RetryIdle

SyncSpec == SyncSpecInit /\ [][SyncNext]_vars

RetrySpecInit ==
  /\ RunnerIdle
  /\ PollIdle
  /\ GateIdle
  /\ ClearIdle
  /\ ReportIdle
  /\ DedupeIdle
  /\ CreateIdle
  /\ SyncIdle
  /\ RetryInit

RetrySpec == RetrySpecInit /\ [][RetryNext]_vars

\* ======================================================================
\* Properties of the bounded-concurrency runner and the bulk endpoint
\* ======================================================================

\* createWithConcurrency has run and resolved.
Completed ==
  \/ phase = "returned"
  \/ phase = "responded" /\ response.status # 400

\* The pool has been built by a started run.
PoolBuilt == (phase = "running" /\ Spawned) \/ Completed

\* How often worker() was called with task index t.
Invocations(t) == Cardinality({j \in 1..Len(invoked) : invoked[j] = t})

TaskIndexes == 0..(Len(tasks) - 1)

\* How many rows of an accumulator carry the identity of task index t.
RowsOf(acc, t) ==
  Cardinality({j \in 1..Len(acc) :
                 /\ acc[j].mart_code = tasks[t + 1].martCode
                 /\ acc[j].ad_creative = tasks[t + 1].adCreative})

\* C1: when createWithConcurrency has completed, the worker has been invoked
\* exactly once for each task index 0..K-1, for every K >= 0 and every limit
\* (also when the limit is at least K); no index is ever invoked twice.
C1_ExactlyOncePerTask ==
  /\ \A t \in TaskIndexes : Invocations(t) <= 1
  /\ \A j \in 1..Len(invoked) : invoked[j] \in TaskIndexes
  /\ Completed => \A t \in TaskIndexes : Invocations(t) = 1

C1_Witness ==
  /\ phase = "returned"
  /\ Len(tasks) = 3
  /\ concurrency = 2
  /\ Len(invoked) = 3

\* C2: with a limit N >= 1 the number of worker invocations started and not
\* yet settled never exceeds N; the bulk endpoint never has more than 4
\* createLinkRecord calls in flight.
C2_InFlightBounded ==
  /\ concurrency >= 1 => Cardinality(InFlight) <= concurrency
  /\ caller = "POST" => Cardinality(InFlight) <= BulkConcurrency

C2_Witness ==
  /\ concurrency = 2
  /\ Len(tasks) = 3
  /\ cursor = 2
  /\ Cardinality(InFlight) = 2

\* C3: in every step the cursor stays or grows by exactly 1; it grows exactly
\* when a task is claimed, the claim returns the index under the cursor, and
\* that index was never claimed before.
C3_CursorMonotonic ==
  [][/\ cursor' \in {cursor, cursor + 1}
     /\ (cursor' = cursor + 1) <=> (invoked' = Append(invoked, cursor))
     /\ (invoked' # invoked) => (\A j \in 1..Len(invoked) : invoked[j] # cursor)
    ]_vars

\* The second worker settles first and claims the third task while the first
\* worker's invocation is still in flight.
C3_Witness ==
  /\ Len(workers) = 2
  /\ workers[1].idx = 0 /\ workers[1].pc \in InFlightPcs
  /\ workers[2].idx = 2 /\ workers[2].pc \in InFlightPcs

\* C4: createWithConcurrency has resolved only if every task has been claimed
\* and no worker invocation is in flight or waiting to be resumed.
C4_ReturnsAfterAllSettled ==
  Completed =>
    /\ cursor = Len(tasks)
    /\ InFlight = {}
    /\ \A i \in 1..Len(workers) : workers[i].pc = "done"

C4_Witness ==
  /\ phase = "returned"
  /\ Len(workers) >= 2
  /\ Len(created) >= 1
  /\ Len(errors) >= 1

\* The error of task index t has been caught by the worker closure.
Caught(t) ==
  /\ t \in thrown
  /\ \A i \in 1..Len(workers) :
       ~(workers[i].pc = "threw" /\ workers[i].idx = t)

\* C5: a task whose createLinkRecord call throws gets exactly one error row
\* with its mart_code and ad_creative (a task that did not throw gets none),
\* no logical worker leaves its loop while tasks are unclaimed, and at
\* completion every task has been attempted.
C5_FailureIsolated ==
  /\ \A t \in TaskIndexes :
       RowsOf(errors, t) = (IF Caught(t) THEN 1 ELSE 0)
  /\ Len(errors) = Cardinality({t \in TaskIndexes : Caught(t)})
  /\ \A i \in 1..Len(workers) :
       workers[i].pc = "done" => cursor >= Len(tasks)
  /\ Completed => \A t \in TaskIndexes : Invocations(t) = 1

\* The only worker's first task threw, and the worker went on to the others.
C5_Witness ==
  /\ phase = "returned"
  /\ Len(workers) = 1
  /\ 0 \in thrown
  /\ Len(errors) = 1
  /\ Len(created) = 2

\* C6 as stated: the pool has exactly min(limit, count) logical workers.
C6_Original == PoolBuilt => Len(workers) = Min(concurrency, Len(tasks))

\* C6: the pool has exactly max(1, min(limit, count)) logical workers: that
\* is min(limit, count) when limit and count are both at least 1, and one
\* worker otherwise.
C6_PoolSize ==
  PoolBuilt =>
    /\ Len(workers) = Max(1, Min(concurrency, Len(tasks)))
    /\ (concurrency >= 1 /\ Len(tasks) >= 1)
         => Len(workers) = Min(concurrency, Len(tasks))
    /\ (concurrency < 1 \/ Len(tasks) = 0) => Len(workers) = 1

\* An empty task list still gets one logical worker, which claims nothing.
C6_Witness ==
  /\ phase = "returned"
  /\ Len(tasks) = 0
  /\ Len(workers) = 1
  /\ invoked = << >>

C8_RunsToCompletion ==
  /\ []((phase = "running" /\ Spawned /\ cursor < Len(tasks))
          => \E i \in 1..Len(workers) : workers[i].pc # "done")
  /\ []((Completed /\ cursor < Len(tasks)) => FALSE)
  /\ (phase = "running") ~> (phase = "returned")

C8_Witness ==
  /\ phase = "returned"
  /\ Len(tasks) = 3
  /\ concurrency = 1
  /\ Len(errors) = 3

\* C9: in every completion order, each task is in at most one accumulator and
\* at most once; when the endpoint has answered for a batch, each task is in
\* exactly one of them and created + failed = requested = number of tasks.
C9_AccumulatorsPartition ==
  /\ \A t \in TaskIndexes : RowsOf(created, t) + RowsOf(errors, t) <= 1
  /\ (phase = "responded" /\ response.status # 400) =>
       /\ \A t \in TaskIndexes : RowsOf(created, t) + RowsOf(errors, t) = 1
       /\ response.summary.requested = Len(tasks)
       /\ response.summary.created = Len(created)
       /\ response.summary.failed = Len(errors)
       /\ response.summary.created + response.summary.failed
            = response.summary.requested

\* A later task was created before an earlier one failed.
C9_Witness ==
  /\ phase = "responded"
  /\ response.status = 200
  /\ response.summary.created = 1
  /\ response.summary.failed = 2
  /\ created[1].mart_code = tasks[3].martCode
  /\ created[1].ad_creative = tasks[3].adCreative

\* ======================================================================
\* Properties of the report polling loop
\* ======================================================================

\* An OK response that makes the loop wait and retry.
PendingWithToken(r) ==
  /\ r.ok /\ r.success /\ r.hasData
  /\ r.data.report_status = "PENDING"
  /\ r.data.task_id \notin {Null, ""}

\* C10: request n+1 is issued only if n < 20 and each of the responses 1..n
\* was OK, PENDING and carried a non-empty task_id; an OK response with any
\* other status or without token ends the loop with no further request; the
\* payload of the last OK response is the one left displayed.
C10_PollContinuation ==
  /\ Len(requests) <= Len(responses) + 1
  /\ \A n \in 1..(Len(requests) - 1) :
       /\ n < 20
       /\ PendingWithToken(responses[n])
  /\ Len(responses) > 0 =>
       LET last == responses[Len(responses)] IN
         (last.ok /\ last.success /\ last.hasData) =>
           /\ selectedLinkReport = last.data
           /\ ~PendingWithToken(last) =>
                /\ pollPc = "done"
                /\ Len(requests) = Len(responses)

C10_Witness ==
  /\ pollPc = "done"
  /\ Len(requests) = 20
  /\ Len(responses) = 20
  /\ selectedLinkReport = [report_status |-> "SUCCESS", task_id |-> "t1"]

\* An OK response carrying a payload.
GoodResponse(r) == r.ok /\ r.success /\ r.hasData

\* All of the first n responses made the loop wait and retry.
AllPending(n) == \A j \in 1..n : PendingWithToken(responses[j])

\* C11: the loop never issues more than 20 requests; PENDING with token 19
\* times and SUCCESS on the 20th gives exactly 20 requests and leaves the
\* SUCCESS payload; an immediate SUCCESS gives exactly 1 request; PENDING
\* with token on every call ends after the 20th request; while the server
\* keeps answering PENDING with token the loop does not end before.
C11_AttemptBudget ==
  /\ Len(requests) <= 20
  /\ Len(responses) <= Len(requests)
  /\ (Len(responses) = 20 /\ AllPending(19)
        /\ GoodResponse(responses[20])
        /\ responses[20].data.report_status = "SUCCESS") =>
       /\ pollPc = "done"
       /\ Len(requests) = 20
       /\ selectedLinkReport = responses[20].data
  /\ (Len(responses) >= 1 /\ GoodResponse(responses[1])
        /\ responses[1].data.report_status = "SUCCESS") =>
       /\ pollPc = "done"
       /\ Len(requests) = 1
       /\ Len(responses) = 1
  /\ (Len(responses) = 20 /\ AllPending(20)) =>
       /\ pollPc \in {"wait", "done"}
       /\ Len(requests) = 20
  /\ (Len(responses) < 20 /\ AllPending(Len(responses)) /\ pollPc = "done")
       => Len(requests) = Len(responses) + 1

\* PENDING on all 20 calls: the loop has ended with 20 requests.
C11_Witness ==
  /\ pollPc = "done"
  /\ attempt = 20
  /\ Len(requests) = 20
  /\ Len(responses) = 20
  /\ selectedLinkReport.report_status = "PENDING"

\* C12: a first response with status PENDING and no continuation token (null
\* or empty task_id) ends the loop after that call: no wait is started and
\* no second request is issued.
C12_PendingWithoutToken ==
  (/\ Len(responses) >= 1
   /\ GoodResponse(responses[1])
   /\ responses[1].data.report_status = "PENDING"
   /\ responses[1].data.task_id \in {Null, ""}) =>
    /\ pollPc = "done"
    /\ waits = 0
    /\ Len(requests) = 1
    /\ Len(responses) = 1
    /\ isReportLoading = FALSE

C12_Witness ==
  /\ pollPc = "done"
  /\ Len(responses) = 1
  /\ responses[1].ok /\ responses[1].success /\ responses[1].hasData
  /\ responses[1].data = [report_status |-> "PENDING", task_id |-> ""]
  /\ selectedLinkReport = [report_status |-> "PENDING", task_id |-> ""]

\* C13: a response that is not OK, or has success = false, or has no data,
\* is the last one: the loop has ended with no further request, an error
\* message is shown and the displayed report is cleared.
C13_FailureAborts ==
  \A n \in 1..Len(responses) :
    ~GoodResponse(responses[n]) =>
      /\ n = Len(responses)
      /\ Len(requests) = n
      /\ pollPc = "done"
      /\ errorMessage = "report failed"
      /\ selectedLinkReport = NoReport
      /\ isReportLoading = FALSE

\* The third response is not OK, after two PENDING ones.
C13_Witness ==
  /\ Len(responses) = 3
  /\ ~responses[3].ok
  /\ Len(requests) = 3
  /\ waits = 2
  /\ pollPc = "done"
  /\ errorMessage = "report failed"

\* C19 as stated: every wait is followed by a retry request, so the loop
\* never waits after its 20th request and ends with fewer waits than
\* requests.
C19_Original ==
  /\ ~(pollPc = "wait" /\ Len(requests) = 20)
  /\ pollPc = "done" => waits < Max(1, Len(requests))

\* C20: when the bulk endpoint has run a batch it answers 500 exactly when
\* no link was created; otherwise it answers 200 with the created rows, the
\* error rows and success = (errors is empty).
C20_BulkResponse ==
  (phase = "responded" /\ response.status # 400) =>
    /\ response.status \in {200, 500}
    /\ response.status = 500 <=> Len(created) = 0
    /\ response.errors = errors
    /\ response.status = 200 =>
         /\ response.data = created
         /\ response.success = (Len(errors) = 0)
    /\ response.status = 500 => response.success = FALSE

\* One task failed, two were created: 200 with success = false.
C20_Witness ==
  /\ phase = "responded"
  /\ response.status = 200
  /\ response.success = FALSE
  /\ Len(response.data) = 2
  /\ Len(response.errors) = 1

\* ======================================================================
\* Properties of the access gate
\* ======================================================================

\* ACCESS_GATE_CODE is unset, empty or whitespace only.
GateOff == gateEnv = Unset \/ \A i \in 1..Len(gateEnv) : gateEnv[i] \in Whitespace

\* /enter, /api/access, or a path below one of them.
EnterOrAccess(p) ==
  \/ Len(p) >= 1 /\ p[1] = "enter"
  \/ Len(p) >= 2 /\ p[1] = "api" /\ p[2] = "access"

\* The code of a POST /api/access is, once trimmed, the configured code.
RightCode(req) == req.code # Unset /\ Trim(req.code) = Trim(gateEnv)

\* C14: with ACCESS_GATE_CODE unset, empty or whitespace only, the
\* middleware passes every request, whatever its path and cookie, and never
\* redirects.
C14_GateDisabled ==
  (GateOff /\ gateReq.method # "none") =>
    /\ gateRes.kind # "redirect"
    /\ gateReq.method = "GET" => gateRes = PassThrough
    /\ gateRes.setCookie # "verified"

\* A whitespace-only code, a protected path, no cookie: passed through.
C14_Witness ==
  /\ gateEnv = <<"\t", " ">>
  /\ gateReq.method = "GET"
  /\ gateReq.pathname = <<"api", "links">>
  /\ gateReq.cookie = NoCookie
  /\ gateRes.kind = "next"

\* C15: with ACCESS_GATE_CODE set, a request outside /enter and /api/access
\* without the cookie value "verified" is redirected to /enter with next =
\* its path and query, and a request to /enter or /api/access (or below) is
\* never redirected.
C15_GateEnabled ==
  (~GateOff /\ gateReq.method # "none") =>
    /\ EnterOrAccess(gateReq.pathname) => gateRes.kind # "redirect"
    /\ (~EnterOrAccess(gateReq.pathname) /\ gateReq.cookie # "verified") =>
         /\ gateRes.kind = "redirect"
         /\ gateRes.pathname = <<"enter">>
         /\ gateRes.next = <<gateReq.pathname, gateReq.search>>

\* /enterprise with an unrelated cookie value and a query is redirected.
C15_Witness ==
  /\ ~GateOff
  /\ gateReq.pathname = <<"enterprise">>
  /\ gateReq.search = "?q=1"
  /\ gateReq.cookie = "x"
  /\ gateRes.kind = "redirect"
  /\ gateRes.next = <<(<<"enterprise">>), "?q=1">>

PlaceholderMarkers == {"__PUT_", "PUT_YOUR", "YOUR_"}

\* ADMIN_CLEAR_KEY is set, not blank and carries no placeholder marker.
AdminKeyConfigured ==
  /\ adminKeyEnv # Unset
  /\ \E i \in 1..Len(adminKeyEnv) : adminKeyEnv[i] \notin Whitespace
  /\ \A i \in 1..Len(adminKeyEnv) : adminKeyEnv[i] \notin PlaceholderMarkers

\* The key of the request is, once trimmed, the configured key.
RightKey == clearKey # Unset /\ Trim(clearKey) = Trim(adminKeyEnv)

\* C17: the handler issues a database call (and removes rows) only if
\* ADMIN_CLEAR_KEY is configured and the trimmed body key equals it; an
\* unconfigured key is answered 400, a missing or wrong key 401, both with
\* no count and no delete issued, and the table changes only after a call
\* was issued.
C17_ClearNeedsKey ==
  /\ [](/\ clearOps # << >> => AdminKeyConfigured /\ RightKey
        /\ removed > 0 => AdminKeyConfigured /\ RightKey
        /\ (clearPc = "done" /\ ~AdminKeyConfigured) =>
             clearRes.status = 400 /\ clearOps = << >> /\ removed = 0
        /\ (clearPc = "done" /\ AdminKeyConfigured /\ ~RightKey) =>
             clearRes.status = 401 /\ clearOps = << >> /\ removed = 0)
  /\ [][linkTable' # linkTable => clearOps' # << >>]_vars

\* A wrong key against a configured one: 401 and the table as it was.
C17_Witness ==
  /\ clearPc = "done"
  /\ adminKeyEnv = <<" ", "k", " ">>
  /\ clearKey = <<"j">>
  /\ clearRes.status = 401
  /\ linkTable = {1, 2}
  /\ clearOps = << >>

\* ======================================================================
\* Properties of GET /api/link-report
\* ======================================================================

\* The trimmed task_id of the request being served ("" when it has none).
RequestedTaskId == Param(repReq.task_id)

\* The request was answered 200 by the handler itself, not from the cache.
AnsweredFresh ==
  /\ rep.pc = "done"
  /\ repRes.status = 200
  /\ ~repRes.cached

\* The request was resumed: no primary query, job T polled exactly once,
\* task_id == T in the answer.
Resumed ==
  /\ repCalls.starts = 0
  /\ repCalls.polled = <<RequestedTaskId>>
  /\ repRes.data.task_id = RequestedTaskId

\* The request started one primary query; when the start returned a job,
\* that job and no other was polled, at most twice, and its id is the
\* task_id of the answer.
StartedOne ==
  /\ repCalls.starts = 1
  /\ repCalls.job # << >> =>
       /\ Len(repCalls.polled) <= 2
       /\ \A k \in 1..Len(repCalls.polled) : repCalls.polled[k] = repCalls.job
       /\ repRes.data.task_id = repCalls.job

\* C18 as stated: every request answered 200 and not from the cache is
\* resumed when it carries task_id=T, and starts exactly one primary query
\* when it carries none.
C18_Original ==
  AnsweredFresh => IF RequestedTaskId # << >> THEN Resumed ELSE StartedOne

\* C18, amended: once the report metadata lookup of the request has
\* succeeded (the tracking-link detail lookup before it too), a request
\* with task_id=T starts no primary query, polls job T exactly once and
\* answers task_id == T; a request without task_id starts exactly one
\* primary query and, when the start returns a job, polls that job at most
\* twice and answers its id.  A request whose metadata lookup fails starts
\* and polls nothing, and still answers the task_id it was given.
C18_ResumeOrStart ==
  /\ (rep.pc = "done" /\ repCalls.meta = "ok") =>
       /\ AnsweredFresh
       /\ IF RequestedTaskId # << >> THEN Resumed ELSE StartedOne
  /\ (rep.pc = "done" /\ repCalls.meta = "failed") =>
       /\ AnsweredFresh
       /\ repCalls.starts = 0
       /\ repCalls.polled = << >>
       /\ repRes.data.report_status = "UNAVAILABLE"
       /\ RequestedTaskId # << >> => repRes.data.task_id = RequestedTaskId

\* A request with task_id "T " whose job is still pending after its one
\* poll: answered PENDING with task_id T.
C18_Witness ==
  /\ AnsweredFresh
  /\ repCalls.meta = "ok"
  /\ repReq.task_id = <<"T", " ">>
  /\ repCalls.polled = << <<"T">> >>
  /\ repRes.data.task_id = <<"T">>
  /\ repRes.data.report_status = "PENDING"

\* The trimmed short_url of the request being served ("" when it has none).
RequestedShortUrl == Param(repReq.short_url)

\* The request made no call to Airbridge.
NoAirbridgeCall(c) ==
  /\ c.meta = "none"
  /\ c.starts = 0
  /\ c.polled = << >>
  /\ c.fallbackStarts = 0

\* A non-cached 200 answer to a request for S alone (no airbridge_link_id)
\* whose upsert succeeded is the data of the row under S.
StoredUnderRequestedKey ==
  (/\ AnsweredFresh
   /\ RequestedShortUrl # << >>
   /\ Param(repReq.airbridge_link_id) = << >>
   /\ repCalls.cacheWrite = "stored") =>
    /\ cache[RequestedShortUrl].present
    /\ cache[RequestedShortUrl].data = repRes.data
    /\ cache[RequestedShortUrl].report_status = repRes.data.report_status

\* A cache read for S without refresh=1 that succeeds while the row under S
\* is inside its TTL ends the request with cached: true, the data of the
\* row, and no call to Airbridge.
FreshRowIsServed ==
  (/\ rep.pc = "cacheRead"
   /\ rep'.pc # "cacheRead"
   /\ CacheFresh(cache[RequestedShortUrl], now)
   /\ repCalls'.cacheRead # "failed") =>
    /\ rep'.pc = "done"
    /\ repRes'.status = 200
    /\ repRes'.cached
    /\ repRes'.data = cache[RequestedShortUrl].data
    /\ NoAirbridgeCall(repCalls')
    /\ cache' = cache

\* C22 as stated: the answer of a non-cached GET for S is stored under key
\* S when the cache table is available, and a GET for S without refresh=1
\* inside the TTL of the stored row is answered from it: cached: true, the
\* same data, no call to Airbridge.
C22_Original ==
  /\ []StoredUnderRequestedKey
  /\ [][FreshRowIsServed]_vars

\* The request is answered in this step.
Answers == rep.pc # "done" /\ rep'.pc = "done"

\* An answer with cached: true is the data of the row under the trimmed
\* short_url of the request, which is given, with refresh other than "1"
\* and with the row's expires_at strictly later than now.
CachedOnlyIfFresh ==
  (Answers /\ repRes'.cached) =>
    /\ RequestedShortUrl # << >>
    /\ repReq.refresh # "1"
    /\ cache[RequestedShortUrl].present
    /\ cache[RequestedShortUrl].expires_at > now
    /\ repRes'.data = cache[RequestedShortUrl].data
    /\ cache' = cache

\* An upsert that succeeds writes one row, the answer of the request, which
\* expires 900 s after the write for SUCCESS, 20 s for PENDING, 120 s for
\* any other status; a failed upsert and every other step leave the table
\* as it is.
WriteSetsTtl ==
  IF rep.pc = "cacheWrite" /\ repCalls'.cacheWrite = "stored"
    THEN \E key \in CacheKeys :
           /\ \A k \in CacheKeys \ {key} : cache'[k] = cache[k]
           /\ cache'[key].present
           /\ cache'[key].data = repRes'.data
           /\ cache'[key].report_status = repRes'.data.report_status
           /\ cache'[key].expires_at - now =
                CASE repRes'.data.report_status = "SUCCESS" -> 15 * 60
                  [] repRes'.data.report_status = "PENDING" -> 20
                  [] OTHER -> 2 * 60
    ELSE cache' = cache

\* A request with refresh=1 makes no cache read and is never answered from
\* the cache; its 200 answer, when the upsert succeeds, is the row under its
\* cache key (the short URL of the answer, else the requested one).
RefreshSkipsRead ==
  ForceRefresh(repReq) =>
    /\ rep.pc # "cacheRead"
    /\ repCalls.cacheRead = "none"
    /\ rep.pc = "done" => ~repRes.cached
    /\ (AnsweredFresh /\ repCalls.cacheWrite = "stored") =>
         LET key == IF repRes.data.short_url # << >>
                      THEN repRes.data.short_url
                      ELSE RequestedShortUrl
         IN  /\ cache[key].present
             /\ cache[key].data = repRes.data
    /\ (AnsweredFresh /\ RequestedShortUrl # << >>) =>
         repCalls.cacheWrite # "none"

\* C23: a cached payload is served only for a request with short_url,
\* without refresh=1 and with a stored row whose expires_at is strictly
\* later than now; a stored row expires 15 minutes (SUCCESS), 20 seconds
\* (PENDING) or 2 minutes (any other status) after its write; refresh=1
\* skips the cache read and its fresh result still overwrites the row.
C23_CacheRules ==
  /\ [][CachedOnlyIfFresh]_vars
  /\ [][WriteSetsTtl]_vars
  /\ []RefreshSkipsRead

\* A second request for the same short_url, 20 s after a failed report was
\* stored, is answered from the row that expires at 120 s.
C23_Witness ==
  /\ rep.pc = "done"
  /\ repRes.cached
  /\ now = 20
  /\ RequestedShortUrl = ShortUrlA
  /\ cache[ShortUrlA].expires_at = 120
  /\ repRes.data = cache[ShortUrlA].data

\* ======================================================================
\* Properties of the bulk task list
\* ======================================================================

\* The distinct trimmed (martCode, adCreative) pairs of the request that
\* have a mart code and a creative.
RequestedPairs ==
  {t \in {[martCode |-> Trim(rawTasks[i].martCode),
           adCreative |-> Trim(rawTasks[i].adCreative)] :
          i \in 1..Len(rawTasks)} :
     t.martCode # << >> /\ t.adCreative # << >>}

\* C21 as stated: dedupedTasks holds every distinct non-empty pair of the
\* request, and each exactly once: no two differing pairs are merged.
C21_Original ==
  parsePc = "deduped" =>
    /\ {dedupedTasks[i] : i \in 1..Len(dedupedTasks)} = RequestedPairs
    /\ \A i, j \in 1..Len(dedupedTasks) :
         dedupedTasks[i] = dedupedTasks[j] => i = j

\* ======================================================================
\* Properties of createLinkRecord and POST /api/create-link
\* ======================================================================

\* The call that just ended was turned away before the creation: the
\* route's 400, or createLinkRecord's VALIDATION error.
TurnedAway(res) == res.status = 400 \/ res.code = "VALIDATION"

\* The last creation of the log gave a short URL.
LastCreationGaveUrl(log) ==
  log # << >> /\ log[Len(log)].shortUrl # Unset

\* One step keeps the order validate, create, insert.
CreateStepInOrder ==
  /\ creations' # creations /\ Len(creations') > Len(creations) =>
       /\ createPc \in {"idle", "done"}
       /\ createPc' = "airbridge"
       /\ Trim(createReq'.mart_code) \notin {Unset, << >>}
       /\ Trim(createReq'.ad_creative) \notin {Unset, << >>}
       /\ \E k \in 1..Len(createReq'.ad_creative) :
            createReq'.ad_creative[k] \in {"banner", "Banner", "x"}
  /\ createCount' # createCount /\ createPc' = "done" =>
       /\ TurnedAway(createRes')
       /\ creations' = creations
  /\ inserts' # inserts =>
       /\ createPc = "airbridge"
       /\ createPc' = "insert"
       /\ inserts' = inserts + 1
       /\ LastCreationGaveUrl(creations')
  /\ createPc = "airbridge" /\ createPc' = "done" =>
       /\ ~LastCreationGaveUrl(creations')
       /\ createRes'.status = 502 \/ createRes'.code \in {"AIRBRIDGE", "Error"}
       /\ inserts' = inserts
  /\ linkRows' # linkRows =>
       /\ createPc = "insert"
       /\ createPc' = "done"
       /\ inserts' = inserts
  /\ TurnedAway(createRes') /\ createRes' # createRes =>
       /\ creations' = creations
       /\ inserts' = inserts
       /\ linkRows' = linkRows

\* Every row of links carries the short URL of a successful creation for
\* the row's own mart code and campaign.
RowsCarryCreatedUrl ==
  \A row \in linkRows :
    /\ row.short_url # Unset
    /\ \E k \in 1..Len(creations) :
         /\ creations[k].shortUrl = row.short_url
         /\ creations[k].params.martCode = row.mart_code
         /\ creations[k].params.campaignName = row.campaign_name
    /\ Len(creations) >= inserts
    /\ inserts >= Cardinality(linkRows)

\* C24: both handlers validate, then create the Airbridge link, then
\* insert.  A validation failure causes no Airbridge call and no insert, an
\* Airbridge failure no insert, and every inserted row carries a short URL
\* that a successful creation for that same task returned.
C24_FixedOrder ==
  /\ [][CreateStepInOrder]_vars
  /\ []RowsCarryCreatedUrl

\* A second call has stored its row after the first call's creation failed
\* at Airbridge: one creation without a URL, one with, one row.
C24_Witness ==
  /\ createPc = "done"
  /\ createRes \in {RouteAnswer(200), RecordEnd("returned")}
  /\ Len(creations) = 2
  /\ creations[1].shortUrl = Unset
  /\ inserts = 1
  /\ Cardinality(linkRows) = 1


\* ======================================================================
\* Properties of POST /api/admin/clear-links under concurrent inserts
\* ======================================================================

\* C25 as stated: summary.deleted of a successful clear equals the number
\* of rows the delete removed, also when a create-link request inserted a
\* row between the count and the delete.
C25_Original ==
  clearPc = "done" /\ clearRes.status = 200 => clearRes.deleted = removed

\* ======================================================================
\* Properties of the marts sync normalizations
\* ======================================================================

\* The records of a list have pairwise distinct mart_id.
DistinctMartIds(list) ==
  \A i, j \in 1..Len(list) : list[i].mart_id = list[j].mart_id => i = j

\* The records of a list have non-empty, pairwise distinct codes.
DistinctCodes(list) ==
  /\ \A i \in 1..Len(list) : list[i].code \notin {Unset, << >>}
  /\ \A i, j \in 1..Len(list) : list[i].code = list[j].code => i = j

\* The last record of the sheet with the given mart_id.
LastOfMartId(martId) ==
  records[CHOOSE i \in 1..Len(records) :
            /\ records[i].mart_id = martId
            /\ \A j \in (i + 1)..Len(records) : records[j].mart_id # martId]

\* dedupeByMartId kept, for every mart_id of the sheet, its last record.
KeepsLastOfEachMartId ==
  /\ {dedupedByMartIdRecords[i].mart_id :
        i \in 1..Len(dedupedByMartIdRecords)}
       = {records[i].mart_id : i \in 1..Len(records)}
  /\ \A i \in 1..Len(dedupedByMartIdRecords) :
       dedupedByMartIdRecords[i]
         = LastOfMartId(dedupedByMartIdRecords[i].mart_id)
  /\ Len(dedupedByMartIdRecords) + dropped = Len(records)

\* No normalized record has a code that the database holds for another
\* mart_id.
NoCodeOfAnotherMart ==
  \A i \in 1..Len(normalizedWithDb.records), row \in existingRows :
    row.code = normalizedWithDb.records[i].code
      => row.mart_id = normalizedWithDb.records[i].mart_id

\* C27: dedupeByMartId gives pairwise distinct mart_id, keeps the last
\* record of each mart_id, and output length + dropped is the input length;
\* ensureUniqueCodesInBatch and ensureCodesNotCollidingWithDb give pairwise
\* distinct mart_id and pairwise distinct non-empty codes; after the
\* database normalization no code is one the database holds for a different
\* mart_id.
C27_Normalized ==
  /\ syncPc \in {"deduped", "unique", "normalized"} =>
       /\ DistinctMartIds(dedupedByMartIdRecords)
       /\ KeepsLastOfEachMartId
  /\ syncPc \in {"unique", "normalized"} =>
       /\ DistinctMartIds(uniqueBatchRecords)
       /\ DistinctCodes(uniqueBatchRecords)
       /\ Len(uniqueBatchRecords) = Len(dedupedByMartIdRecords)
  /\ syncPc = "normalized" =>
       /\ DistinctMartIds(normalizedWithDb.records)
       /\ DistinctCodes(normalizedWithDb.records)
       /\ Len(normalizedWithDb.records) = Len(dedupedByMartIdRecords)
       /\ NoCodeOfAnotherMart

\* A sheet with a repeated mart_id has been normalized against a database
\* that holds both "a" and "a_1" for other marts: one record dropped, one
\* code moved on to "a_1_2".
C27_Witness ==
  /\ syncPc = "normalized"
  /\ dropped = 1
  /\ \E row \in existingRows : row.code = <<"a">>
  /\ \E i \in 1..Len(normalizedWithDb.records) :
       /\ normalizedWithDb.records[i].mart_id = 1
       /\ normalizedWithDb.records[i].code = <<"a", "_", "1", "_", "2">>

\* ======================================================================
\* Properties of POST /api/marts/sync
\* ======================================================================

\* A result that is a duplicate-code error; one that is a transient fetch
\* error.
DuplicateCodeResult(result) ==
  result.error /\ "marts_code_key" \in result.message
TransientResult(result) ==
  result.error /\ result.message \cap {"fetch failed", "ETIMEDOUT"} # {}

\* The database actions in the order the handler can take them.
DbActionNames == {"first", "existing", "second"}

\* One step of the handler keeps to the order first upsert, read, second
\* upsert, and calls an action again only after a transient error.
SyncStepInOrder ==
  /\ \A name \in DbActionNames :
       dbCalls'[name] # dbCalls[name] =>
         /\ dbCalls'[name] = dbCalls[name] + 1
         /\ \A other \in DbActionNames \ {name} :
              dbCalls'[other] = dbCalls[other]
         /\ dbCalls[name] > 0 =>
              /\ syncPc = "sleep"
              /\ actionName = name
              /\ TransientResult(lastResult)
  /\ dbCalls.existing = 0 /\ dbCalls'.existing = 1 =>
       /\ actionName = "first"
       /\ DuplicateCodeResult(firstUpsert')
       /\ dbCalls.second = 0
  /\ dbCalls.second = 0 /\ dbCalls'.second = 1 =>
       /\ actionName = "existing"
       /\ DuplicateCodeResult(firstUpsert)
       /\ ~lastResult'.error
       /\ normalizedWithDb'.records # << >>
       /\ DistinctCodes(normalizedWithDb'.records)
       /\ \A i \in 1..Len(normalizedWithDb'.records), row \in existingRows' :
            row.code = normalizedWithDb'.records[i].code
              => row.mart_id = normalizedWithDb'.records[i].mart_id
  /\ actionName = "existing" /\ syncPc = "call" /\ syncPc' = "done" =>
       /\ syncRes'.status = 500
       /\ dbCalls' = dbCalls
  /\ actionName = "first" /\ syncPc = "call" /\ syncPc' = "done" =>
       dbCalls' = dbCalls

\* What holds of the calls made so far.
SyncCallsBounded ==
  /\ \A name \in DbActionNames : dbCalls[name] <= SupabaseRetries + 1
  /\ dbCalls.second > 0 =>
       /\ DuplicateCodeResult(firstUpsert)
       /\ dbCalls.existing > 0
       /\ dbCalls.first > 0
  /\ dbCalls.existing > 0 => DuplicateCodeResult(firstUpsert)
  /\ syncPc = "done" /\ firstUpsert.error
       /\ ~DuplicateCodeResult(firstUpsert) =>
       /\ syncRes.status \in {400, 500}
       /\ dbCalls.existing = 0
       /\ dbCalls.second = 0
  /\ syncPc = "done" /\ actionName = "existing" =>
       /\ syncRes.status = 500
       /\ dbCalls.second = 0

\* C26: the second upsert is issued only after the first upsert ended with
\* a duplicate-code error and the read of the existing rows succeeded and
\* the codes were renormalized; a failed read answers 500 without a second
\* upsert; any other error of the first upsert is answered without a second
\* upsert; each database action is attempted at most 3 times and again
\* only after a transient fetch error.
C26_SecondUpsert ==
  /\ [][SyncStepInOrder]_vars
  /\ []SyncCallsBounded

\* A sync in which the first and the second upsert each took three
\* attempts and the second one stored the renormalized records.
C26_Witness ==
  /\ syncPc = "done"
  /\ syncRes.status = 200
  /\ dbCalls.first = SupabaseRetries + 1
  /\ dbCalls.existing = 1
  /\ dbCalls.second = SupabaseRetries + 1
  /\ accepted = normalizedWithDb.records
  /\ Len(accepted) = 2

\* ======================================================================
\* Properties of withRetry
\* ======================================================================

\* A failure classified as a timeout.
TimeoutClassified(error) ==
  /\ error.isError
  /\ \/ error.message = "Request timed out"
     \/ error.message = "ETIMEDOUT"
     \/ error.message = "ECONNRESET"

\* The wait before call number n + 1 of a read: baseDelayMs * 2^(n - 1).
WaitBefore(n) ==
  retryOptions.baseDelayMs * (IF n = 1 THEN 1 ELSE IF n = 2 THEN 2 ELSE 4)

\* One step of withRetry for read r.
RetryStepOf(r) ==
  /\ fnCalls'[r] # fnCalls[r] =>
       /\ fnCalls'[r] = fnCalls[r] + 1
       /\ loadRead' = r
       /\ fnCalls[r] > 0 =>
            /\ loadRead = r
            /\ retryPc = "sleep"
            /\ TimeoutClassified(lastError)
            /\ rejections[r] = fnCalls[r]
            /\ Len(delays[r]) = fnCalls[r]
            /\ delays[r][fnCalls[r]] = WaitBefore(fnCalls[r])
       /\ fnCalls[r] = 0 =>
            /\ r = 1 \/ (loadRead = r - 1 /\ retryPc = "call")
            /\ rejections' = rejections
  /\ rejections'[r] # rejections[r] =>
       /\ loadRead = r /\ retryPc = "call"
       /\ fnCalls' = fnCalls
       /\ IF TimeoutClassified(lastError')
               /\ fnCalls[r] < retryOptions.retries + 1
            THEN /\ retryPc' = "sleep"
                 /\ delays'[r] = Append(delays[r], WaitBefore(fnCalls[r]))
            ELSE /\ retryPc' = "thrown"
                 /\ loadRes' = lastError'
                 /\ delays' = delays
  /\ loadRead = r /\ retryPc = "call" /\ rejections' = rejections =>
       /\ fnCalls'[r] = fnCalls[r]
       /\ retryPc' \in {"call", "returned", "thrown"}

\* C28: withRetry calls fn at most retries + 1 times; it calls fn again
\* only after a failure classified as a timeout and after waiting
\* baseDelayMs * 2^attempt; a failure that is not a timeout, or that of call
\* retries + 1, is rethrown at once; after a success fn is not called again.
C28_WithRetry ==
  /\ [][\A r \in LoaderReads : RetryStepOf(r)]_vars
  /\ [](\A r \in LoaderReads :
          /\ fnCalls[r] <= retryOptions.retries + 1
          /\ retryPc \in {"returned", "thrown"} \/ loadRead > r =>
               Len(delays[r]) = fnCalls[r] - 1 \/ fnCalls[r] = 0)

\* With retries 2 and baseDelayMs 600 the mart rows were read at the third
\* call, after waits of 600 and 1200, and the first read at its first call.
C28_Witness ==
  /\ retryPc = "returned"
  /\ retryOptions = [retries |-> 2, baseDelayMs |-> SheetsBaseDelayMs]
  /\ fnCalls[1] = 1
  /\ fnCalls[3] = 3
  /\ delays[3] = <<600, 1200>>

\* ======================================================================
\* Properties of the bulk endpoint's batch size check
\* ======================================================================

\* Nothing of a batch has been attempted: no createLinkRecord call, hence
\* no Airbridge request and no insert.
NothingAttempted ==
  /\ invoked = << >>
  /\ workers = << >>
  /\ created = << >>
  /\ errors = << >>
  /\ links = {}

\* C29: for an empty deduplicated task list, or one of more than 120 tasks,
\* the bulk endpoint answers 400 and calls createLinkRecord for no task; for
\* 1 to 120 tasks the batch is run: when the endpoint answers, every task
\* has been handed to createLinkRecord and the answer is not 400.
C29_OutOfRange ==
  caller = "POST" =>
    /\ Len(tasks) = 0 \/ Len(tasks) > 120 =>
         /\ NothingAttempted
         /\ phase \in {"request", "responded"}
         /\ phase = "responded" => response.status = 400
    /\ Len(tasks) >= 1 /\ Len(tasks) <= 120 /\ phase = "responded" =>
         /\ Len(invoked) = Len(tasks)
         /\ response.status # 400

\* A batch of 121 tasks has been answered 400.
C29_Witness ==
  /\ caller = "POST"
  /\ Len(tasks) = 121
  /\ phase = "responded"
  /\ response.status = 400
  /\ NothingAttempted

====
